---- MODULE Spec2Model ----
(***************************************************************************)
(* A model of nflx-spectator-nodejsmetrics: the RuntimeMetrics class of    *)
(* src/src/index.ts and the native GC notifier (EmitGCEvents, afterGC,     *)
(* async_callback) of the spectator_internals addon.                       *)
(*                                                                         *)
(* The specifications share the variables:                                 *)
(*   Spec     the start()/stop() lifecycle of one RuntimeMetrics instance  *)
(*            with its periodic samplers and deferred callbacks;           *)
(*   HookSpec the same lifecycle with the native GC hook: collections,     *)
(*            queued notifications and the handler they reach;             *)
(*   LagSpec  the same lifecycle with the lag sampler firing milliseconds  *)
(*            and about one period apart;                                  *)
(*   CpuSpec  measureCpuHeap called at successive times;                   *)
(*   DeltaSpec deltaMicros applied to pairs of timestamps;                 *)
(*   GcSpec   the GC event handler of measureGcEvents, driven directly     *)
(*            with events as the unit test's callbackGenerator does;       *)
(*   GcSumSpec the same handler with the promotionRate counter summed by   *)
(*            the consumer of the registry over a bounded run;             *)
(*   GcAllocSpec the same handler over events with the spaces that feed    *)
(*            allocationRate;                                              *)
(*   GcApiSpec the same handler over events of a caller's own emitter,     *)
(*            the after snapshot in another order or shorter;              *)
(*   EluSpec  measureEventLoopUtilization called at successive times;      *)
(*   CapSpec  the lifecycle with and without the utilization capability;   *)
(*   FdSpec   measureFdActivity called with the samples of the unit test;  *)
(*   LoopSpec the lifecycle with the round-trip sampler and its deferred   *)
(*            callbacks, milliseconds apart;                               *)
(*   CtorSpec the constructor on a supported or unsupported runtime;       *)
(*   RunSpec  a started, never stopped instance with every sampler and     *)
(*            its GC handler;                                              *)
(*   TwoSpec  two instances on the one native GC hook;                     *)
(*   QueueSpec the GC hook with collections during a run of the handler;   *)
(*   AtomSpec the same with the timers of the samplers due meanwhile;      *)
(*   LiveSpec the lifecycle and the round-trip sampler writing to a        *)
(*            MemoryWriter, the setImmediate callbacks run fairly;         *)
(*   RestartSpec start(), stop() and start() again around firings of the   *)
(*            CPU/heap task;                                               *)
(*   CacheSpec the lifecycle, the sampler timers and the GC handler;       *)
(*   NativeSpec the addon from module init to cleanup at process exit,     *)
(*            with the GCInfo and handle of every notification.            *)
(***************************************************************************)
EXTENDS Integers, Sequences, FiniteSets, TLC

VARIABLES
    started,              \* RuntimeMetrics.started
    intervals,            \* RuntimeMetrics.intervals: the handles pushed by scheduleTask
    timers,               \* Node's timer table: handle id -> [task, period, active, hasRef]
    immediates,           \* Node's setImmediate queue (measureEventLoopTime callbacks)
    clock,                \* process.hrtime(), in nanoseconds
    lastNanos,            \* RuntimeMetrics.lastNanos
    lastCpuUsage,         \* RuntimeMetrics.lastCpuUsage        (optional)
    lastCpuUsageTime,     \* RuntimeMetrics.lastCpuUsageTime    (optional)
    eventLoopUtilization, \* RuntimeMetrics.eventLoopUtilization (optional capability)
    lastEventLoop,        \* RuntimeMetrics.lastEventLoop       (optional)
    lastEventLoopTime,    \* RuntimeMetrics.lastEventLoopTime   (optional)
    liveDataSizeCache,    \* RuntimeMetrics.liveDataSizeCache   (optional)
    prevMapSize,          \* prevMapSize of the handler closure gcResource points to
    prevLargeSize,        \* prevLargeSize of the same closure
    gcResource,           \* native: 0 = nullptr, n = the closure of the n-th EmitGCEvents call
    epilogueCallbacks,    \* native: entries of afterGC in V8's GC epilogue callback list
    asyncQueue,           \* native: uv_async handles sent by afterGC, not yet run
    gcCount,              \* number of garbage collections so far
    handlerRuns,          \* per collection: [hooked, runs, to, listening], how often the JS
                          \* handler ran for it, of which closures, and the instances that
                          \* were started when it happened
    eluCapable,           \* environment: performance.eventLoopUtilization is a function
    writer,               \* registry lines written by the most recent step
    gauges,               \* last value of the liveDataSize / maxDataSize gauges, and before
    lastEvent,            \* the GC event the handler processed most recently (optional)
    expectedLiveDataSize, \* old_space after-used of the latest markSweepCompact event (optional)
    tracked,              \* map_space / large_object_space after-used sizes of the events
                          \* handled so far, and what they were before the latest event
    promotionTotal,       \* sum of the promotionRate increments written (GcSumSpec)
    growthTotal,          \* sum of the positive old_space growths of the events (GcSumSpec)
    logged,               \* registry.logger line of the most recent step (optional)
    lastCall,             \* most recent public call: "none", "start" or "stop"
    lastOp,               \* most recent step: [name, wasStarted]
    hrtimes,              \* DeltaSpec: the timestamps <<end, start>> given to deltaMicros
    deltaResult,          \* DeltaSpec: what deltaMicros returned for them (optional)
    fdSample,             \* FdSpec: what fdFunction returned to the latest call (optional)
    memoryWriter,         \* FdSpec: the lines the MemoryWriter holds since its last clear()
    capabilities,         \* environment: process.cpuUsage and v8.getHeapSpaceStatistics
                          \* are functions
    construction,         \* "pending", "constructed" or "threw": how the constructor ended
    meters,               \* the meters created on the registry
    other,                \* a second RuntimeMetrics instance of the process (TwoSpec)
    running,              \* QueueSpec: the notification whose handler is running (optional)
    native                \* NativeSpec: the addon's isolate_shutting_down and before_stats,
                          \* the GCInfo and handle of every notification, invalid uses

vars == <<started, intervals, timers, immediates, clock, lastNanos, lastCpuUsage,
          lastCpuUsageTime, eventLoopUtilization, lastEventLoop, lastEventLoopTime,
          liveDataSizeCache, prevMapSize, prevLargeSize, gcResource, epilogueCallbacks,
          asyncQueue, gcCount, handlerRuns, eluCapable, writer, gauges, lastEvent,
          expectedLiveDataSize, tracked,
          promotionTotal, growthTotal, logged, lastCall, lastOp, hrtimes, deltaResult,
          fdSample, memoryWriter, capabilities, construction, meters, other, running, native>>

\* The fields of the instance that hold sampler state.
samplerVars == <<lastNanos, lastCpuUsage, lastCpuUsageTime, eventLoopUtilization,
                 lastEventLoop, lastEventLoopTime, liveDataSizeCache, prevMapSize,
                 prevLargeSize>>

\* The native GC hook.
nativeVars == <<gcResource, epilogueCallbacks, asyncQueue, gcCount, handlerRuns>>

\* What only GcSumSpec moves.
sumVars == <<promotionTotal, growthTotal>>

\* What the consumer of the registry keeps of the GC events.
gcVars == <<gauges, lastEvent, expectedLiveDataSize, tracked>>

\* What only DeltaSpec moves.
deltaVars == <<hrtimes, deltaResult>>

\* What only FdSpec moves.
fdVars == <<fdSample, memoryWriter>>

\* What only CtorSpec moves.
ctorVars == <<capabilities, construction, meters>>

\* What the lifecycle of one instance on a supported runtime leaves alone.
auxVars == <<fdVars, ctorVars, other, running, native>>

-----------------------------------------------------------------------------
\* Bounds of the model.

\* Largest spaceUsedSize of a heap space in a GC event.
MaxSize == 2

\* Largest elapsed value of a GC event.
MaxElapsed == 2

\* Number of GC events GcSumSpec sums over.
MaxEvents == 3

\* Number of start() calls that find the instance stopped.
MaxStarts == 2

\* Number of garbage collections in HookSpec.
MaxGcs == 2

\* Largest value of the clock.
MaxClock == 1

\* Length of the setImmediate queue.
MaxImmediates == 2

-----------------------------------------------------------------------------
\* Optional values (undefined / null in the source): <<>> or <<v>>.

None == <<>>

Some(v) == <<v>>

IsSome(o) == o # <<>>

Get(o) == o[1]

\* A metric value: a fraction <<numerator, denominator>> in lowest terms.
RECURSIVE GCD(_, _)
GCD(a, b) == IF b = 0 THEN a ELSE GCD(b, a % b)

Frac(n, d) ==
    IF d = 0 THEN <<(IF n > 0 THEN 1 ELSE 0), 0>>
    ELSE LET g == GCD(n, d) IN <<n \div g, d \div g>>

Num(n) == <<n, 1>>

\* process.version
NodeVersion == "v20.0.0"

\* withVersion that returns the tags as it got them.
withVersionOmitted(id) == [id |-> id, version |-> ""]

\* withVersion(tags): every tag set carries nodejs.version.
withVersion(id) == [id |-> id, version |-> NodeVersion]

\* A line written to the registry: a meter of a kind, a name and tags, and a value.
Line(kind, name, tags, value) ==
    [kind |-> kind, name |-> name, id |-> tags.id, version |-> tags.version, value |-> value]

\* The lines of a sequence that belong to one meter name.
LinesOf(lines, name) == SelectSeq(lines, LAMBDA l : l.name = name)

-----------------------------------------------------------------------------
\* GC events, as DetailedHeapStats::serialize builds them: before and after list
\* the heap spaces of the isolate in the same order.

GcTypes == {"scavenge", "markSweepCompact"}

Sizes == 0 .. MaxSize

\* Sizes given to the entries next to old_space.
OtherSizes == {0, MaxSize}

Elapsed == 1 .. MaxElapsed

\* heap_size_limit exceeds the size of any one space.
HeapSizeLimits == {MaxSize + 1, MaxSize + 2}

HeapSpace(name, used) == [spaceName |-> name, spaceUsedSize |-> used]

GcEvent(type, elapsed, limit, before, after) ==
    [type |-> type, elapsed |-> elapsed,
     before |-> [heapSpaceStats |-> before],
     after |-> [heapSizeLimit |-> limit, heapSpaceStats |-> after]]

\* The before/after statistics of the heap-space layouts the model draws from.
SpaceStats ==
    {<< <<>>, <<>> >>}
    \cup {<< <<HeapSpace("code_space", b)>>, <<HeapSpace("code_space", a)>> >> :
            b \in OtherSizes, a \in OtherSizes}
    \cup {<< <<HeapSpace("old_space", b)>>, <<HeapSpace("old_space", a)>> >> :
            b \in Sizes, a \in Sizes}
    \cup {<< <<HeapSpace("new_space", MaxSize), HeapSpace("old_space", b)>>,
             <<HeapSpace("new_space", 0), HeapSpace("old_space", a)>> >> :
            b \in Sizes, a \in Sizes}

GcEvents ==
    {GcEvent(t, el, lim, st[1], st[2]) :
        t \in GcTypes, el \in Elapsed, lim \in HeapSizeLimits, st \in SpaceStats}

\* The events GcSumSpec draws from: old_space alone.
OldEvents ==
    {GcEvent(t, 1, MaxSize + 1, <<HeapSpace("old_space", b)>>, <<HeapSpace("old_space", a)>>) :
        t \in GcTypes, b \in Sizes, a \in Sizes}

\* The events GcAllocSpec draws from: the spaces that feed allocationRate, one at
\* a time and together, next to an old_space and a code_space event.
AllocStats ==
    {<< <<HeapSpace("code_space", MaxSize)>>, <<HeapSpace("code_space", 0)>> >>,
     << <<HeapSpace("old_space", MaxSize)>>, <<HeapSpace("old_space", 1)>> >>}
    \cup {<< <<HeapSpace(n, b)>>, <<HeapSpace(n, a)>> >> :
            n \in {"new_space", "map_space", "large_object_space"}, b \in Sizes, a \in Sizes}
    \cup {<< <<HeapSpace("new_space", nb), HeapSpace("map_space", mb),
               HeapSpace("large_object_space", lb)>>,
             <<HeapSpace("new_space", 0), HeapSpace("map_space", ma),
               HeapSpace("large_object_space", la)>> >> :
            nb \in OtherSizes, mb \in OtherSizes, lb \in OtherSizes,
            ma \in {0, 1}, la \in {0, 1}}

AllocEvents ==
    {GcEvent("scavenge", 1, MaxSize + 1, st[1], st[2]) : st \in AllocStats}

\* The events GcApiSpec draws from: what a caller of measureGcEvents may hand to
\* the handler, the after snapshot in the order of the before snapshot, in the
\* opposite order, or shorter.
ApiStats ==
    {<< <<HeapSpace("new_space", MaxSize), HeapSpace("old_space", b)>>, after >> :
        b \in Sizes,
        after \in UNION {{ <<HeapSpace("new_space", 0), HeapSpace("old_space", a)>>,
                           <<HeapSpace("old_space", a), HeapSpace("new_space", 0)>>,
                           <<HeapSpace("old_space", a)>>,
                           <<HeapSpace("new_space", 0)>> } : a \in Sizes}}

ApiEvents ==
    {GcEvent(t, 1, MaxSize + 1, st[1], st[2]) : t \in GcTypes, st \in ApiStats}

\* The events the native hook delivers in HookSpec.
HookEvents ==
    {GcEvent("scavenge", 1, MaxSize + 1,
             <<HeapSpace("new_space", 1), HeapSpace("old_space", 0), HeapSpace("map_space", 1)>>,
             <<HeapSpace("new_space", 0), HeapSpace("old_space", 1), HeapSpace("map_space", 1)>>),
     GcEvent("markSweepCompact", 1, MaxSize + 1,
             <<HeapSpace("new_space", 0), HeapSpace("old_space", 1), HeapSpace("map_space", 2)>>,
             <<HeapSpace("new_space", 0), HeapSpace("old_space", 0), HeapSpace("map_space", 1)>>)}

-----------------------------------------------------------------------------
\* The GC event handler of measureGcEvents.

Max(S) == CHOOSE x \in S : \A y \in S : y <= x

\* JavaScript truthiness of an optional number: defined and not 0.
Truthy(o) == IsSome(o) /\ Get(o) # 0

\* The loop without its test of the name: the last entry, whatever it is called.
ClassifyAnyName(event, name) ==
    LET b == event.before.heapSpaceStats
        a == event.after.heapSpaceStats
        idx == Len(b)
    IN  [before |-> IF idx = 0 THEN None ELSE Some(b[idx]),
         after |-> IF idx \in DOMAIN a THEN Some(a[idx]) ELSE None]

\* The loop over event.before.heapSpaceStats: the last entry named `name` is kept,
\* with the entry of event.after.heapSpaceStats at the same index.
Classify(event, name) ==
    LET b == event.before.heapSpaceStats
        a == event.after.heapSpaceStats
        S == {i \in DOMAIN b : b[i].spaceName = name}
        idx == IF S = {} THEN 0 ELSE Max(S)
    IN  [before |-> IF idx = 0 THEN None ELSE Some(b[idx]),
         after |-> IF idx \in DOMAIN a THEN Some(a[idx]) ELSE None]

Present(space) == IsSome(space.before) /\ IsSome(space.after)

\* Adding a contribution to totalAllocationRate.
AddAllocation(total, d) == IF Truthy(total) THEN Some(Get(total) + d) ELSE Some(d)

UsedBefore(space) == Get(space.before).spaceUsedSize

UsedAfter(space) == Get(space.after).spaceUsedSize

\* self.maxDataSize.set(event.after.heapSizeLimit)
MaxDataSizeLine(event) ==
    Line("g", "nodejs.gc.maxDataSize", withVersion(""), Num(event.after.heapSizeLimit))

\* The pause timer without its id tag.
PauseLineUntagged(event) ==
    Line("t", "nodejs.gc.pause", withVersion(""), Num(event.elapsed))

\* self.registry.timer("nodejs.gc.pause", withVersion({id: event.type})).record(event.elapsed)
PauseLine(event) ==
    Line("t", "nodejs.gc.pause", withVersion(event.type), Num(event.elapsed))

\* promotionRate incremented by the after-used size instead of the growth.
PromotionLinesBySize(old) ==
    IF Present(old) /\ UsedAfter(old) > UsedBefore(old)
    THEN << Line("c", "nodejs.gc.promotionRate", withVersion(""), Num(UsedAfter(old))) >>
    ELSE <<>>

\* if (oldAfter > oldBefore) promotionRate.increment(oldAfter - oldBefore)
PromotionLines(old) ==
    IF Present(old) /\ UsedAfter(old) > UsedBefore(old)
    THEN << Line("c", "nodejs.gc.promotionRate", withVersion(""),
                 Num(UsedAfter(old) - UsedBefore(old))) >>
    ELSE <<>>

\* The test of the liveDataSize branch passing for every event with old_space.
FreshAlways(event, old) == Present(old)

\* oldAfter < oldBefore || event.type === "markSweepCompact"
Fresh(event, old) ==
    Present(old) /\ (UsedAfter(old) < UsedBefore(old) \/ event.type = "markSweepCompact")

\* The liveDataSize branch refreshing with the current after-used size instead of
\* the cached value.
LiveLinesCurrent(event, old, cache) ==
    IF ~Present(old) THEN <<>>
    ELSE IF Fresh(event, old) \/ IsSome(cache)
    THEN << Line("g", "nodejs.gc.liveDataSize", withVersion(""), Num(UsedAfter(old))) >>
    ELSE <<>>

\* The liveDataSize branch: set the fresh value, or refresh the cached one.
LiveLines(event, old, cache) ==
    IF ~Present(old) THEN <<>>
    ELSE IF Fresh(event, old)
    THEN << Line("g", "nodejs.gc.liveDataSize", withVersion(""), Num(UsedAfter(old))) >>
    ELSE IF IsSome(cache)
    THEN << Line("g", "nodejs.gc.liveDataSize", withVersion(""), Num(Get(cache))) >>
    ELSE <<>>

\* new_space: garbage generated and collected.
Young(new) ==
    IF Present(new) /\ UsedBefore(new) > UsedAfter(new)
    THEN Some(UsedBefore(new) - UsedAfter(new))
    ELSE None

\* map_space and large_object_space: growth since the previous event's after-used.
Carried(total, space, prev) ==
    IF Present(space) /\ Truthy(prev) /\ UsedBefore(space) > Get(prev)
    THEN AddAllocation(total, UsedBefore(space) - Get(prev))
    ELSE total

\* if (totalAllocationRate) allocationRate.increment(totalAllocationRate)
AllocationLines(total) ==
    IF Truthy(total)
    THEN << Line("c", "nodejs.gc.allocationRate", withVersion(""), Num(Get(total))) >>
    ELSE <<>>

\* The handler: the lines it writes and the carried state it leaves, given the
\* carried state it finds.
GcHandler(event, cache, pMap, pLarge) ==
    LET old == Classify(event, "old_space")
        new == Classify(event, "new_space")
        map == Classify(event, "map_space")
        large == Classify(event, "large_object_space")
        totalAllocationRate == Carried(Carried(Young(new), map, pMap), large, pLarge)
    IN  [lines |-> <<MaxDataSizeLine(event), PauseLine(event)>>
                   \o PromotionLines(old) \o LiveLines(event, old, cache)
                   \o AllocationLines(totalAllocationRate),
         liveDataSizeCache |-> IF Fresh(event, old) THEN Some(UsedAfter(old)) ELSE cache,
         prevMapSize |-> IF Present(map) THEN Some(UsedAfter(map)) ELSE pMap,
         prevLargeSize |-> IF Present(large) THEN Some(UsedAfter(large)) ELSE pLarge]

\* The gauges as the registry's consumer sees them after `lines`: last write wins,
\* and `before` keeps what liveDataSize showed before these lines.
LastValue(lines, name, old) ==
    LET ls == LinesOf(lines, name)
    IN  IF ls = <<>> THEN old ELSE Some(ls[Len(ls)].value)

ApplyGauges(g, lines) ==
    [liveDataSize |-> LastValue(lines, "nodejs.gc.liveDataSize", g.liveDataSize),
     maxDataSize |-> LastValue(lines, "nodejs.gc.maxDataSize", g.maxDataSize),
     before |-> g.liveDataSize]

\* Sum of the values of counter lines (whole numbers).
RECURSIVE SumValues(_)
SumValues(lines) ==
    IF lines = <<>> THEN 0 ELSE Head(lines).value[1] + SumValues(Tail(lines))

\* The old_space entries of an event's snapshots, found by name.
OldBefore(event) ==
    SelectSeq(event.before.heapSpaceStats, LAMBDA s : s.spaceName = "old_space")

OldAfter(event) ==
    SelectSeq(event.after.heapSpaceStats, LAMBDA s : s.spaceName = "old_space")

HasOld(event) == OldBefore(event) # <<>> /\ OldAfter(event) # <<>>

\* old_space growth of an event, when positive.
OldGrowth(event) ==
    IF HasOld(event) /\ OldAfter(event)[1].spaceUsedSize > OldBefore(event)[1].spaceUsedSize
    THEN OldAfter(event)[1].spaceUsedSize - OldBefore(event)[1].spaceUsedSize
    ELSE 0

\* The entries of a snapshot that carry the space name `name`.
Entries(stats, name) == SelectSeq(stats, LAMBDA s : s.spaceName = name)

\* The after-used size of a space the consumer keeps from one event to the next.
Track(event, name, size) ==
    IF Entries(event.after.heapSpaceStats, name) # <<>>
    THEN Some(Entries(event.after.heapSpaceStats, name)[1].spaceUsedSize)
    ELSE size

\* One invocation of the handler closure on `event`.
RunHandler(event) ==
    \E r \in {GcHandler(event, liveDataSizeCache, prevMapSize, prevLargeSize)} :
        /\ liveDataSizeCache' = r.liveDataSizeCache
        /\ prevMapSize' = r.prevMapSize
        /\ prevLargeSize' = r.prevLargeSize
        /\ writer' = r.lines
        /\ gauges' = ApplyGauges(gauges, r.lines)
        /\ lastEvent' = Some(event)
        /\ expectedLiveDataSize' =
               IF event.type = "markSweepCompact" /\ OldAfter(event) # <<>>
               THEN Some(OldAfter(event)[1].spaceUsedSize)
               ELSE expectedLiveDataSize
        /\ tracked' = [mapSize |-> Track(event, "map_space", tracked.mapSize),
                       largeSize |-> Track(event, "large_object_space", tracked.largeSize),
                       priorMapSize |-> tracked.mapSize,
                       priorLargeSize |-> tracked.largeSize]

-----------------------------------------------------------------------------
\* The meters the constructor creates on the registry: name and id tag.
FixedMeters ==
    {<<"nodejs.external", "">>, <<"nodejs.heapTotal", "">>, <<"nodejs.heapUsed", "">>,
     <<"nodejs.rss", "">>, <<"nodejs.eventLoopUtilization", "">>,
     <<"nodejs.eventLoopLag", "">>, <<"nodejs.eventLoop", "">>,
     <<"nodejs.gc.allocationRate", "">>, <<"nodejs.gc.liveDataSize", "">>,
     <<"nodejs.gc.maxDataSize", "">>, <<"nodejs.gc.promotionRate", "">>,
     <<"openFileDescriptorsCount", "">>, <<"maxFileDescriptorsCount", "">>,
     <<"nodejs.cpuUsage", "system">>, <<"nodejs.cpuUsage", "user">>}

\* A runtime with process.cpuUsage and v8.getHeapSpaceStatistics.
Supported == [cpuUsage |-> TRUE, heapSpaceStatistics |-> TRUE]

\* No second instance: one that was never started.
NoOther == [started |-> FALSE, intervals |-> <<>>, closures |-> {},
            liveDataSizeCache |-> None]

\* The addon after NAN_MODULE_INIT: isolate_shutting_down = false, before_stats
\* allocated (TRUE: not nullptr), beforeGC a GC prologue callback, no GCInfo or
\* handle allocated, no pointer used while null or freed.
NativeInit ==
    [isolate_shutting_down |-> FALSE, before_stats |-> TRUE, prologue |-> TRUE,
     allocs |-> <<>>, faults |-> {}]

\* The fields as their initializers leave them, the others undefined, in a
\* process where nothing has run yet.
FieldInitializers ==
    /\ started = FALSE
    /\ intervals = <<>>
    /\ timers = <<>>
    /\ immediates = <<>>
    /\ clock = 0
    /\ lastNanos = 0
    /\ lastCpuUsage = None
    /\ lastCpuUsageTime = None
    /\ eventLoopUtilization = FALSE
    /\ lastEventLoop = None
    /\ lastEventLoopTime = None
    /\ liveDataSizeCache = None
    /\ prevMapSize = None
    /\ prevLargeSize = None
    /\ gcResource = 0
    /\ epilogueCallbacks = 0
    /\ asyncQueue = <<>>
    /\ gcCount = 0
    /\ handlerRuns = <<>>
    /\ writer = <<>>
    /\ gauges = [liveDataSize |-> None, maxDataSize |-> None, before |-> None]
    /\ lastEvent = None
    /\ expectedLiveDataSize = None
    /\ tracked = [mapSize |-> None, largeSize |-> None,
                  priorMapSize |-> None, priorLargeSize |-> None]
    /\ promotionTotal = 0
    /\ growthTotal = 0
    /\ logged = None
    /\ lastCall = "none"
    /\ lastOp = [name |-> "new", wasStarted |-> FALSE]
    /\ hrtimes = << <<0, 0>>, <<0, 0>> >>
    /\ deltaResult = None
    /\ fdSample = None
    /\ memoryWriter = <<>>
    /\ other = NoOther
    /\ running = None
    /\ native = NativeInit

\* The state after `new RuntimeMetrics(registry)` on a supported runtime.
InitInstance ==
    /\ FieldInitializers
    /\ capabilities = Supported
    /\ construction = "constructed"
    /\ meters = FixedMeters

-----------------------------------------------------------------------------
\* GcSpec: metrics.measureGcEvents(callbackGenerator), the generator calling the
\* handler once per event.

lifeVars == <<started, intervals, timers, immediates, clock, lastNanos, lastCpuUsage,
              lastCpuUsageTime, eventLoopUtilization, lastEventLoop, lastEventLoopTime,
              eluCapable, logged, lastCall>>

\* The carried state of the GC handler.
samplerCaches == <<liveDataSizeCache, prevMapSize, prevLargeSize>>

GcInit == InitInstance /\ eluCapable = TRUE

HandleGcEvent ==
    \E event \in GcEvents :
        /\ RunHandler(event)
        /\ lastOp' = [name |-> "gcEvent", wasStarted |-> started]
        /\ UNCHANGED <<lifeVars, nativeVars, sumVars, deltaVars, auxVars>>

GcNext == HandleGcEvent

GcSpec == GcInit /\ [][GcNext]_vars

\* GcSumSpec: the same, over old_space events, the consumer summing the counter.

HandleCountedGcEvent ==
    \E event \in OldEvents :
        /\ gcCount < MaxEvents
        /\ RunHandler(event)
        /\ gcCount' = gcCount + 1
        /\ promotionTotal' = promotionTotal
               + SumValues(LinesOf(GcHandler(event, liveDataSizeCache, prevMapSize,
                                             prevLargeSize).lines,
                                   "nodejs.gc.promotionRate"))
        /\ growthTotal' = growthTotal + OldGrowth(event)
        /\ lastOp' = [name |-> "gcEvent", wasStarted |-> started]
        /\ UNCHANGED <<lifeVars, gcResource, epilogueCallbacks, asyncQueue, handlerRuns,
                       deltaVars, auxVars>>

GcSumNext == HandleCountedGcEvent

GcSumSpec == GcInit /\ [][GcSumNext]_vars

\* GcAllocSpec: the same handler over the events that feed allocationRate.

HandleAllocEvent ==
    \E event \in AllocEvents :
        /\ RunHandler(event)
        /\ lastOp' = [name |-> "gcEvent", wasStarted |-> started]
        /\ UNCHANGED <<lifeVars, nativeVars, sumVars, deltaVars, auxVars>>

GcAllocNext == HandleAllocEvent

GcAllocSpec == GcInit /\ [][GcAllocNext]_vars

\* GcApiSpec: measureGcEvents(emitGcFunction) with a caller's own emitter.

HandleApiEvent ==
    \E event \in ApiEvents :
        /\ RunHandler(event)
        /\ lastOp' = [name |-> "gcEvent", wasStarted |-> started]
        /\ UNCHANGED <<lifeVars, nativeVars, sumVars, deltaVars, auxVars>>

GcApiNext == HandleApiEvent

GcApiSpec == GcInit /\ [][GcApiNext]_vars

-----------------------------------------------------------------------------
\* The periodic samplers.

NanosPerSec == 1000000000

NanosPerMicro == 1000

MicrosPerSec == 1000000

NanosPerMilli == 1000000

\* process.hrtime(): [seconds, nanoseconds] of the clock.
HrTime(t) == <<t \div NanosPerSec, t % NanosPerSec>>

\* now[0] * 1e9 + now[1]
Nanos(hr) == hr[1] * NanosPerSec + hr[2]

\* Math.trunc of n / d: rounding towards zero.
Trunc(n, d) == IF n >= 0 THEN n \div d ELSE -((-n) \div d)

\* A number of microseconds can exceed a model integer: it is held as
\* <<s, u>>, standing for s * 10^6 + u.
Wide(s, u) == IF u >= MicrosPerSec THEN <<s + 1, u - MicrosPerSec>> ELSE <<s, u>>

Micros(w) == w[1] * MicrosPerSec + w[2]

AtLeast(w, v) == w[1] > v[1] \/ (w[1] = v[1] /\ w[2] >= v[2])

\* JavaScript numbers are IEEE doubles. 2^44 .. 2^50 as wide numbers: from each
\* of them on, a double has one fraction bit less (8 fraction bits from 2^44).
DoubleBinades ==
    << <<17592186, 44416>>, <<35184372, 88832>>, <<70368744, 177664>>,
       <<140737488, 355328>>, <<281474976, 710656>>, <<562949953, 421312>>,
       <<1125899906, 842624>> >>

FractionBits(w) ==
    9 - Cardinality({k \in DOMAIN DoubleBinades : AtLeast(w, DoubleBinades[k])})

\* The double sum whole + thousandths / 1000 rounds up to whole + 1: the
\* fraction is within half a unit in the last place of 1 (ties go to even).
RoundsUp(thousandths, bits) ==
    /\ bits <= 8
    /\ thousandths * 2^(bits + 1) >= NanosPerMicro * (2^(bits + 1) - 1)

\* Math.trunc(deltaSecs * 1e6 + deltaNanos / 1e3) in double arithmetic, for
\* deltaSecs >= 0: the product is exact, the sum is rounded to the doubles of
\* its magnitude, and the truncation drops what fraction is left.
DoubleTrunc(deltaSecs, deltaNanos) ==
    LET whole == deltaNanos \div NanosPerMicro
        thousandths == deltaNanos % NanosPerMicro
    IN  IF RoundsUp(thousandths, FractionBits(<<deltaSecs, whole>>))
        THEN Wide(deltaSecs, whole + 1)
        ELSE Wide(deltaSecs, whole)

\* deltaMicros(end, start). With end before start by a few seconds the value is
\* negative and Math.trunc rounds towards zero.
deltaMicros(end, start) ==
    LET dn == end[2] - start[2]
        ds == end[1] - start[1]
        deltaNanos == IF dn < 0 THEN dn + NanosPerSec ELSE dn
        deltaSecs == IF dn < 0 THEN ds - 1 ELSE ds
    IN  IF deltaSecs >= 0
        THEN DoubleTrunc(deltaSecs, deltaNanos)
        ELSE <<0, Trunc(deltaSecs * NanosPerSec + deltaNanos, NanosPerMicro)>>

\* updatePercentage that takes the cumulative value for the delta.
PercentageOfCurrent(currentUsed, prevUsed, totalMicros) ==
    Frac(currentUsed * 100, totalMicros)

\* updatePercentage(g, currentUsed, prevUsed, totalMicros): the value set on g.
Percentage(currentUsed, prevUsed, totalMicros) ==
    Frac((currentUsed - prevUsed) * 100, totalMicros)

\* toCamelCase on the keys the runtime reports in the model, with the "nodejs." prefix.
MeterName(key) ==
    CASE key = "total_heap_size" -> "nodejs.totalHeapSize"
      [] key = "used_heap_size" -> "nodejs.usedHeapSize"
      [] key = "space_size" -> "nodejs.spaceSize"
      [] key = "space_used_size" -> "nodejs.spaceUsedSize"

\* toCamelCase on a space name, for the id tag.
SpaceId(name) ==
    CASE name = "old_space" -> "oldSpace"
      [] name = "new_space" -> "newSpace"

\* What the runtime returns to the samplers in the model.
FdSamples == {[used |-> 1, max |-> None], [used |-> 42, max |-> Some(32768)]}

MemoryUsage == [rss |-> 4, heapTotal |-> 3, heapUsed |-> 2, external |-> 1]

HeapStatistics == << <<"total_heap_size", 3>>, <<"used_heap_size", 2>> >>

HeapSpaceStatistics ==
    << [space_name |-> "old_space",
        stats |-> << <<"space_size", 2>>, <<"space_used_size", 1>> >>] >>

\* Cumulative CPU time and event-loop active time: they advance with the clock.
\* The readings are cumulative: none is below the previous one.
CpuUsages(t, last) ==
    {[user |-> u, system |-> 0] :
        u \in (IF IsSome(last) THEN Get(last).user ELSE 0) .. (t \div NanosPerMicro)}

EventLoopUtilizations(t, last) ==
    {[active |-> a] :
        a \in {x \in {0, t \div NanosPerMicro} : IsSome(last) => x >= Get(last).active}}

\* updateV8HeapGauges
HeapGaugeLines(heapInfo) ==
    [i \in DOMAIN heapInfo |->
        Line("g", MeterName(heapInfo[i][1]), withVersion(""), Num(heapInfo[i][2]))]

\* updateV8HeapSpaceGauges
RECURSIVE HeapSpaceGaugeLines(_)
HeapSpaceGaugeLines(spaces) ==
    IF spaces = <<>> THEN <<>>
    ELSE LET space == Head(spaces)
         IN  [i \in DOMAIN space.stats |->
                 Line("g", MeterName(space.stats[i][1]), withVersion(SpaceId(space.space_name)),
                      Num(space.stats[i][2]))]
             \o HeapSpaceGaugeLines(Tail(spaces))

\* measureFdActivity that sets the ceiling gauge for every sample, to 0 for a
\* sample without a max.
measureFdActivityAlways(fd) ==
    << Line("g", "openFileDescriptorsCount", withVersion(""), Num(fd.used)),
       Line("g", "maxFileDescriptorsCount", withVersion(""),
            Num(IF IsSome(fd.max) THEN Get(fd.max) ELSE 0)) >>

\* measureFdActivity(self, fdFunction): the lines written for the sample fd.
measureFdActivity(fd) ==
    << Line("g", "openFileDescriptorsCount", withVersion(""), Num(fd.used)) >>
    \o (IF Truthy(fd.max)
        THEN << Line("g", "maxFileDescriptorsCount", withVersion(""), Num(Get(fd.max))) >>
        ELSE <<>>)

\* The period of the lag sampler, in milliseconds.
LagPeriodMillis == 1000

\* measureEventLoopLag that takes the period off the difference.
measureEventLoopLagLessPeriod(t, last) ==
    LET nanos == Nanos(HrTime(t))
        lag == nanos - last - LagPeriodMillis * NanosPerMilli
    IN  IF lag > 0
        THEN << Line("t", "nodejs.eventLoopLag", withVersion(""), Frac(lag, NanosPerSec)) >>
        ELSE <<>>

\* measureEventLoopLag that also records a lag of zero.
measureEventLoopLagNonNegative(t, last) ==
    LET nanos == Nanos(HrTime(t))
        lag == nanos - last
    IN  IF lag >= 0
        THEN << Line("t", "nodejs.eventLoopLag", withVersion(""), Frac(lag, NanosPerSec)) >>
        ELSE <<>>

\* measureEventLoopLag(self): the lines written at clock value t.
measureEventLoopLag(t, last) ==
    LET nanos == Nanos(HrTime(t))
        lag == nanos - last
    IN  IF lag > 0
        THEN << Line("t", "nodejs.eventLoopLag", withVersion(""), Frac(lag, NanosPerSec)) >>
        ELSE <<>>

\* measureEventLoopUtilization that takes a missing snapshot for one of zero at
\* time zero.
measureEventLoopUtilizationFromZero(t, current, lastTime, last) ==
    LET nanos == Nanos(HrTime(t))
        deltaNanos == nanos - (IF IsSome(lastTime) THEN Nanos(Get(lastTime)) ELSE 0)
        active == current.active * NanosPerMilli
        deltaActive == active - (IF IsSome(last) THEN Get(last).active * NanosPerMilli ELSE 0)
    IN  IF deltaActive # 0 /\ deltaNanos # 0
        THEN << Line("g", "nodejs.eventLoopUtilization", withVersion(""),
                     Frac(100 * deltaActive, deltaNanos)) >>
        ELSE <<>>

\* measureEventLoopUtilization(self) with the capability present: the lines written.
measureEventLoopUtilization(t, current, lastTime, last) ==
    LET nanos == Nanos(HrTime(t))
        deltaNanos == IF IsSome(lastTime) THEN Some(nanos - Nanos(Get(lastTime))) ELSE None
        active == current.active * NanosPerMilli
        deltaActive == IF IsSome(last) THEN Some(active - Get(last).active * NanosPerMilli) ELSE None
    IN  IF Truthy(deltaActive) /\ Truthy(deltaNanos)
        THEN << Line("g", "nodejs.eventLoopUtilization", withVersion(""),
                     Frac(100 * Get(deltaActive), Get(deltaNanos))) >>
        ELSE <<>>

\* measureCpuHeap that takes a missing previous sample for a sample of zero at
\* time zero.
measureCpuHeapEager(t, newCpuUsage, lastUsage, lastTime) ==
    LET usage == IF IsSome(lastUsage) THEN Get(lastUsage) ELSE [user |-> 0, system |-> 0]
        time == IF IsSome(lastTime) THEN Get(lastTime) ELSE <<0, 0>>
        elapsedMicros == Micros(deltaMicros(HrTime(t), time))
    IN  << Line("g", "nodejs.rss", withVersion(""), Num(MemoryUsage.rss)),
           Line("g", "nodejs.heapTotal", withVersion(""), Num(MemoryUsage.heapTotal)),
           Line("g", "nodejs.heapUsed", withVersion(""), Num(MemoryUsage.heapUsed)),
           Line("g", "nodejs.external", withVersion(""), Num(MemoryUsage.external)),
           Line("g", "nodejs.cpuUsage", withVersion("user"),
                Percentage(newCpuUsage.user, usage.user, elapsedMicros)),
           Line("g", "nodejs.cpuUsage", withVersion("system"),
                Percentage(newCpuUsage.system, usage.system, elapsedMicros)) >>
        \o HeapGaugeLines(HeapStatistics)
        \o HeapSpaceGaugeLines(HeapSpaceStatistics)

\* measureCpuHeap(self): the lines written.
measureCpuHeap(t, newCpuUsage, lastUsage, lastTime) ==
    << Line("g", "nodejs.rss", withVersion(""), Num(MemoryUsage.rss)),
       Line("g", "nodejs.heapTotal", withVersion(""), Num(MemoryUsage.heapTotal)),
       Line("g", "nodejs.heapUsed", withVersion(""), Num(MemoryUsage.heapUsed)),
       Line("g", "nodejs.external", withVersion(""), Num(MemoryUsage.external)) >>
    \o (IF IsSome(lastUsage) /\ IsSome(lastTime)
        THEN LET elapsedMicros == Micros(deltaMicros(HrTime(t), Get(lastTime)))
             IN  << Line("g", "nodejs.cpuUsage", withVersion("user"),
                         Percentage(newCpuUsage.user, Get(lastUsage).user, elapsedMicros)),
                    Line("g", "nodejs.cpuUsage", withVersion("system"),
                         Percentage(newCpuUsage.system, Get(lastUsage).system, elapsedMicros)) >>
        ELSE <<>>)
    \o HeapGaugeLines(HeapStatistics)
    \o HeapSpaceGaugeLines(HeapSpaceStatistics)

-----------------------------------------------------------------------------
\* DeltaSpec: deltaMicros applied to pairs of process.hrtime() timestamps, the
\* later one first: samples a microsecond, seconds or most of a year apart.

StampSeconds == {0, 1, 2, 20000000}

StampNanos == {0, 1, 999, 1000, 1999, 500000000, 999999000, 999999999}

Stamps == {<<sec, nano>> : sec \in StampSeconds, nano \in StampNanos}

NotBefore(end, start) == end[1] > start[1] \/ (end[1] = start[1] /\ end[2] >= start[2])

ApplyDeltaMicros ==
    \E end \in Stamps, start \in Stamps :
        /\ NotBefore(end, start)
        /\ hrtimes' = <<end, start>>
        /\ deltaResult' = Some(deltaMicros(end, start))
        /\ lastOp' = [name |-> "deltaMicros", wasStarted |-> started]
        /\ UNCHANGED <<lifeVars, samplerCaches, nativeVars, gcVars, sumVars, writer, auxVars>>

DeltaNext == ApplyDeltaMicros

DeltaSpec == GcInit /\ [][DeltaNext]_vars

-----------------------------------------------------------------------------
\* Spec: the lifecycle of one instance, its periodic tasks and the native GC hook.

Timer(task, period) == [task |-> task, period |-> period, active |-> TRUE, hasRef |-> FALSE]

\* scheduleTask that loses the handle: setInterval and unref, no push.
scheduleTaskNoPush(st, task, period) ==
    [timers |-> Append(st.timers, Timer(task, period)),
     intervals |-> st.intervals]

\* scheduleTask that leaves the handle referenced: setInterval and push, no unref.
scheduleTaskNoUnref(st, task, period) ==
    [timers |-> Append(st.timers, [Timer(task, period) EXCEPT !.hasRef = TRUE]),
     intervals |-> Append(st.intervals, Len(st.timers) + 1)]

\* scheduleTask(fn, period, ...): setInterval, unref, push onto this.intervals.
\* `st` holds the timer table and this.intervals.
scheduleTask(st, task, period) ==
    [timers |-> Append(st.timers, Timer(task, period)),
     intervals |-> Append(st.intervals, Len(st.timers) + 1)]

\* clearInterval(id)
clearInterval(tm, id) == [tm EXCEPT ![id].active = FALSE]

\* The loop of stop(): clearInterval over this.intervals.
RECURSIVE ClearAll(_, _)
ClearAll(tm, ids) ==
    IF ids = <<>> THEN tm ELSE ClearAll(clearInterval(tm, Head(ids)), Tail(ids))

\* The tasks of a start() that schedules the utilization sampler whether the
\* capability is there or not.
ScheduledAlways(capable) ==
    << <<"measureFdActivity", 60000>>, <<"measureEventLoopLag", 1000>>,
       <<"measureEventLoopTime", 500>>, <<"measureEventLoopUtilization", 60000>>,
       <<"measureCpuHeap", 60000>> >>

\* The tasks start() schedules, in order: initFdActivity, initEventLoopLag,
\* initEventLoopTime, initEventLoopUtilization (with the capability), initCpuHeap.
Scheduled(capable) ==
    << <<"measureFdActivity", 60000>>, <<"measureEventLoopLag", 1000>>,
       <<"measureEventLoopTime", 500>> >>
    \o (IF capable THEN << <<"measureEventLoopUtilization", 60000>> >> ELSE <<>>)
    \o << <<"measureCpuHeap", 60000>> >>

RECURSIVE ScheduleAll(_, _)
ScheduleAll(st, tasks) ==
    IF tasks = <<>> THEN st
    ELSE ScheduleAll(scheduleTask(st, Head(tasks)[1], Head(tasks)[2]), Tail(tasks))

Op(name) == [name |-> name, wasStarted |-> started]

\* start() on a running instance: the informational log, and nothing else.
StartRunning ==
    /\ logged' = Some("nflx-spectator-nodejsmetrics already started")
    /\ writer' = <<>>
    /\ UNCHANGED <<started, intervals, timers, immediates, clock, samplerVars, nativeVars,
                   eluCapable, gcVars, sumVars, deltaVars, auxVars>>

\* initEventLoopTime that schedules the task and measures nothing itself.
initEventLoopTimeTimerOnly == UNCHANGED immediates

\* initEventLoopTime: measureEventLoopTime(this) after scheduling the task (the
\* scheduling is with that of the other tasks, in ScheduleAll).
initEventLoopTime ==
    immediates' = Append(immediates, [stage |-> "first", scheduled |-> HrTime(clock),
                                      start |-> HrTime(0)])

\* The body of start() past its guard: measureGcEvents(internals.EmitGCEvents),
\* the five init methods, started = true. What a MemoryWriter keeps of the
\* lines is left to the caller.
StartCore ==
    /\ epilogueCallbacks < MaxStarts
    /\ Len(immediates) < MaxImmediates
    \* measureGcEvents: a new closure with its own prevMapSize and prevLargeSize;
    \* EmitGCEvents: gcResource = new GCResource(callback), AddGCEpilogueCallback(afterGC)
    /\ prevMapSize' = None
    /\ prevLargeSize' = None
    /\ gcResource' = epilogueCallbacks + 1
    /\ epilogueCallbacks' = epilogueCallbacks + 1
    \* initFdActivity: one sample now
    /\ \E fd \in FdSamples : writer' = measureFdActivity(fd)
    \* initEventLoopLag
    /\ lastNanos' = Nanos(HrTime(clock))
    /\ initEventLoopTime
    \* initEventLoopUtilization
    /\ IF eluCapable
       THEN /\ eventLoopUtilization' = TRUE
            /\ lastEventLoopTime' = Some(HrTime(clock))
            /\ \E current \in EventLoopUtilizations(clock, lastEventLoop) :
                   lastEventLoop' = Some(current)
            /\ logged' = None
       ELSE /\ UNCHANGED <<eventLoopUtilization, lastEventLoopTime, lastEventLoop>>
            /\ logged' = Some("Unable to measure eventLoopUtilization")
    \* the scheduleTask calls of the init methods
    /\ \E st \in {ScheduleAll([timers |-> timers, intervals |-> intervals],
                              Scheduled(eluCapable))} :
           /\ timers' = st.timers
           /\ intervals' = st.intervals
    /\ started' = TRUE
    /\ UNCHANGED <<clock, lastCpuUsage, lastCpuUsageTime, liveDataSizeCache, asyncQueue,
                   gcCount, handlerRuns, eluCapable, gcVars, sumVars, deltaVars,
                   native, fdSample, ctorVars, other, running>>

\* The body of start() past its guard.
StartBody ==
    /\ StartCore
    /\ UNCHANGED memoryWriter

\* start() without its guard.
StartUnguarded ==
    /\ StartBody
    /\ lastCall' = "start"
    /\ lastOp' = Op("start")

\* start()
Start ==
    /\ IF started THEN StartRunning ELSE StartBody
    /\ lastCall' = "start"
    /\ lastOp' = Op("start")

\* stop() that cancels the tasks and leaves the flag alone.
StopKeepsFlag ==
    /\ timers' = ClearAll(timers, intervals)
    /\ writer' = <<>>
    /\ logged' = None
    /\ lastCall' = "stop"
    /\ lastOp' = Op("stop")
    /\ UNCHANGED <<started, intervals, immediates, clock, samplerVars, nativeVars,
                   eluCapable, gcVars, sumVars, deltaVars, auxVars>>

\* stop() that also takes a timestamp into lastNanos.
StopStamps ==
    /\ timers' = ClearAll(timers, intervals)
    /\ started' = FALSE
    /\ lastNanos' = Nanos(HrTime(clock))
    /\ writer' = <<>>
    /\ logged' = None
    /\ lastCall' = "stop"
    /\ lastOp' = Op("stop")
    /\ UNCHANGED <<intervals, immediates, clock, lastCpuUsage, lastCpuUsageTime,
                   eventLoopUtilization, lastEventLoop, lastEventLoopTime,
                   liveDataSizeCache, prevMapSize, prevLargeSize, nativeVars, eluCapable,
                   gcVars, sumVars, deltaVars, auxVars>>

\* stop()
Stop ==
    /\ timers' = ClearAll(timers, intervals)
    /\ started' = FALSE
    /\ writer' = <<>>
    /\ logged' = None
    /\ lastCall' = "stop"
    /\ lastOp' = Op("stop")
    /\ UNCHANGED <<intervals, immediates, clock, samplerVars, nativeVars, eluCapable,
                   gcVars, sumVars, deltaVars, auxVars>>

\* An interval timer of `task` is due: it has not been cleared.
Due(task) == \E id \in DOMAIN timers : timers[id].active /\ timers[id].task = task

\* A step of a sampler or of the event loop leaves the lifecycle alone. What a
\* MemoryWriter keeps of the lines is left to the caller.
SamplerCore(name) ==
    /\ lastOp' = Op(name)
    /\ logged' = None
    /\ UNCHANGED <<started, intervals, timers, lastCall, eluCapable, nativeVars, gcVars,
                   sumVars, deltaVars, native, fdSample, ctorVars, other, running,
                   liveDataSizeCache, prevMapSize, prevLargeSize, eventLoopUtilization>>

\* A step of a sampler or of the event loop leaves the lifecycle alone.
SamplerStep(name) ==
    /\ SamplerCore(name)
    /\ UNCHANGED memoryWriter

FireFdActivity ==
    /\ Due("measureFdActivity")
    /\ \E fd \in FdSamples : writer' = measureFdActivity(fd)
    /\ SamplerStep("measureFdActivity")
    /\ UNCHANGED <<immediates, clock, lastNanos, lastCpuUsage, lastCpuUsageTime,
                   lastEventLoop, lastEventLoopTime>>

\* The lag task stamping the time of the CPU sample as well.
FireEventLoopLagSharedStamp ==
    /\ Due("measureEventLoopLag")
    /\ writer' = measureEventLoopLag(clock, lastNanos)
    /\ lastNanos' = Nanos(HrTime(clock))
    /\ lastCpuUsageTime' = Some(HrTime(clock))
    /\ SamplerStep("measureEventLoopLag")
    /\ UNCHANGED <<immediates, clock, lastCpuUsage, lastEventLoop, lastEventLoopTime>>

\* measureEventLoopLag(self), from its timer.
FireEventLoopLag ==
    /\ Due("measureEventLoopLag")
    /\ writer' = measureEventLoopLag(clock, lastNanos)
    /\ lastNanos' = Nanos(HrTime(clock))
    /\ SamplerStep("measureEventLoopLag")
    /\ UNCHANGED <<immediates, clock, lastCpuUsage, lastCpuUsageTime, lastEventLoop,
                   lastEventLoopTime>>

\* measureEventLoopTime(self): setImmediate of the first callback.
FireEventLoopTime ==
    /\ Due("measureEventLoopTime")
    /\ Len(immediates) < MaxImmediates
    /\ immediates' = Append(immediates, [stage |-> "first", scheduled |-> HrTime(clock), start |-> HrTime(0)])
    /\ writer' = <<>>
    /\ SamplerStep("measureEventLoopTime")
    /\ UNCHANGED <<clock, lastNanos, lastCpuUsage, lastCpuUsageTime, lastEventLoop,
                   lastEventLoopTime>>

\* The event loop runs the oldest setImmediate callback: the first one takes the
\* start time and defers the second, the second records process.hrtime(start).
\* What a MemoryWriter keeps of the line is left to the caller.
RunImmediateCore ==
    /\ immediates # <<>>
    /\ IF Head(immediates).stage = "first"
       THEN /\ immediates' = Append(Tail(immediates),
                                    [stage |-> "second",
                                     scheduled |-> Head(immediates).scheduled,
                                     start |-> HrTime(clock)])
            /\ writer' = <<>>
       ELSE /\ immediates' = Tail(immediates)
            /\ writer' = << Line("t", "nodejs.eventLoop", withVersion(""),
                                 Frac(Nanos(HrTime(clock)) - Nanos(Head(immediates).start),
                                      NanosPerSec)) >>
    /\ SamplerCore("immediate")
    /\ UNCHANGED <<clock, lastNanos, lastCpuUsage, lastCpuUsageTime, lastEventLoop,
                   lastEventLoopTime>>

\* The event loop runs the oldest setImmediate callback, the round trip timed
\* from the setImmediate call of the firing.
RunImmediateFromScheduling ==
    /\ immediates # <<>>
    /\ IF Head(immediates).stage = "first"
       THEN /\ immediates' = Append(Tail(immediates),
                                    [stage |-> "second",
                                     scheduled |-> Head(immediates).scheduled,
                                     start |-> Head(immediates).scheduled])
            /\ writer' = <<>>
       ELSE /\ immediates' = Tail(immediates)
            /\ writer' = << Line("t", "nodejs.eventLoop", withVersion(""),
                                 Frac(Nanos(HrTime(clock)) - Nanos(Head(immediates).start),
                                      NanosPerSec)) >>
    /\ SamplerStep("immediate")
    /\ UNCHANGED <<clock, lastNanos, lastCpuUsage, lastCpuUsageTime, lastEventLoop,
                   lastEventLoopTime>>

\* The event loop runs the oldest setImmediate callback.
RunImmediate ==
    /\ RunImmediateCore
    /\ UNCHANGED memoryWriter

FireEventLoopUtilization ==
    /\ Due("measureEventLoopUtilization")
    /\ IF ~eventLoopUtilization
       THEN /\ writer' = <<>>
            /\ UNCHANGED <<lastEventLoop, lastEventLoopTime>>
       ELSE \E current \in EventLoopUtilizations(clock, lastEventLoop) :
                /\ writer' = measureEventLoopUtilization(clock, current, lastEventLoopTime,
                                                         lastEventLoop)
                /\ lastEventLoopTime' = Some(HrTime(clock))
                /\ lastEventLoop' = Some(current)
    /\ SamplerStep("measureEventLoopUtilization")
    /\ UNCHANGED <<immediates, clock, lastNanos, lastCpuUsage, lastCpuUsageTime>>

FireCpuHeap ==
    /\ Due("measureCpuHeap")
    /\ \E newCpuUsage \in CpuUsages(clock, lastCpuUsage) :
           /\ writer' = measureCpuHeap(clock, newCpuUsage, lastCpuUsage, lastCpuUsageTime)
           /\ lastCpuUsage' = Some(newCpuUsage)
    /\ lastCpuUsageTime' = Some(HrTime(clock))
    /\ SamplerStep("measureCpuHeap")
    /\ UNCHANGED <<immediates, clock, lastNanos, lastEventLoop, lastEventLoopTime>>

\* Time passes.
Tick ==
    /\ clock < MaxClock * NanosPerMicro
    /\ clock' = clock + NanosPerMicro
    /\ writer' = <<>>
    /\ logged' = None
    /\ lastOp' = Op("tick")
    /\ UNCHANGED <<started, intervals, timers, immediates, samplerVars, nativeVars,
                   eluCapable, gcVars, sumVars, deltaVars, auxVars, lastCall>>

\* A garbage collection: V8 calls every entry of its epilogue callback list, and
\* afterGC allocates a GCInfo and sends one uv_async per call.
GcOccurs ==
    /\ gcCount < MaxGcs
    /\ \E event \in HookEvents :
           asyncQueue' = asyncQueue
               \o [i \in 1 .. epilogueCallbacks |-> [gc |-> gcCount + 1, event |-> event]]
    /\ gcCount' = gcCount + 1
    /\ handlerRuns' = Append(handlerRuns,
                             [hooked |-> epilogueCallbacks > 0, runs |-> 0, to |-> <<>>,
                              listening |-> {i \in {"first"} : started}
                                            \cup {i \in {"other"} : other.started}])
    /\ writer' = <<>>
    /\ logged' = None
    /\ lastOp' = Op("gc")
    /\ UNCHANGED <<started, intervals, timers, immediates, clock, samplerVars, gcResource,
                   epilogueCallbacks, eluCapable, gcVars, sumVars, deltaVars, auxVars, lastCall>>

\* The handler of the second instance: its closure keeps prevMapSize and
\* prevLargeSize, its instance the liveDataSizeCache, and its lines go to the
\* registry of that instance.
RunOtherHandler(event) ==
    \E r \in {GcHandler(event, other.liveDataSizeCache, prevMapSize, prevLargeSize)} :
        /\ other' = [other EXCEPT !.liveDataSizeCache = r.liveDataSizeCache]
        /\ prevMapSize' = r.prevMapSize
        /\ prevLargeSize' = r.prevLargeSize
        /\ writer' = <<>>
        /\ UNCHANGED <<liveDataSizeCache, gcVars>>

\* async_callback: without a gcResource the GCInfo is dropped, otherwise the
\* callback of the current gcResource is called with the serialized event.
AsyncCallback ==
    /\ asyncQueue # <<>>
    /\ asyncQueue' = Tail(asyncQueue)
    /\ IF gcResource = 0
       THEN UNCHANGED <<liveDataSizeCache, prevMapSize, prevLargeSize, writer, gcVars,
                        handlerRuns, other>>
       ELSE /\ IF gcResource \in other.closures
               THEN RunOtherHandler(Head(asyncQueue).event)
               ELSE RunHandler(Head(asyncQueue).event) /\ UNCHANGED other
            /\ handlerRuns' = [handlerRuns EXCEPT ![Head(asyncQueue).gc] =
                                   [@ EXCEPT !.runs = @ + 1, !.to = Append(@, gcResource)]]
    /\ logged' = None
    /\ lastOp' = Op("gcEvent")
    /\ UNCHANGED <<started, intervals, timers, immediates, clock, lastNanos, lastCpuUsage,
                   lastCpuUsageTime, eventLoopUtilization, lastEventLoop, lastEventLoopTime,
                   gcResource, epilogueCallbacks, gcCount, eluCapable, sumVars, deltaVars,
                   native, fdVars, ctorVars, running, lastCall>>

Init == InitInstance /\ eluCapable \in BOOLEAN

Next ==
    \/ Start
    \/ Stop
    \/ FireFdActivity
    \/ FireEventLoopLag
    \/ FireEventLoopTime
    \/ RunImmediate
    \/ FireEventLoopUtilization
    \/ FireCpuHeap
    \/ Tick

Spec == Init /\ [][Next]_vars

\* HookSpec: the lifecycle and the native GC hook.
HookNext ==
    \/ Start
    \/ Stop
    \/ GcOccurs
    \/ AsyncCallback

HookSpec == Init /\ [][HookNext]_vars

-----------------------------------------------------------------------------
\* CpuSpec: RuntimeMetrics.measureCpuHeap(metrics) called on a constructed
\* instance at successive times, process.cpuUsage() growing in between.

\* The times of the samples, in nanoseconds: apart by less than a microsecond,
\* by a few, and across the turn of a second.
CpuClocks == {0, 1000, 3500, 999999500, 1000000500, 1000003000}

\* Largest cumulative CPU time, in microseconds.
MaxCpu == 3

\* process.cpuUsage(): cumulative, so not below the previous sample.
CpuSamples(last) ==
    LET base == IF IsSome(last) THEN Get(last) ELSE [user |-> 0, system |-> 0]
    IN  {[user |-> base.user + du, system |-> base.system + dsys] :
            du \in {d \in {0, 1, 3} : base.user + d <= MaxCpu},
            dsys \in {d \in {0, 2} : base.system + d <= MaxCpu}}

\* Time passes, up to one of the times of `clocks`.
ElapseTo(clocks) ==
    /\ \E t \in clocks : t > clock /\ clock' = t
    /\ writer' = <<>>
    /\ lastOp' = Op("elapse")
    /\ UNCHANGED <<started, intervals, timers, immediates, samplerVars, nativeVars,
                   eluCapable, gcVars, sumVars, deltaVars, auxVars, logged, lastCall>>

Elapse == ElapseTo(CpuClocks)

\* RuntimeMetrics.measureCpuHeap(self)
SampleCpuHeap ==
    /\ \E newCpuUsage \in CpuSamples(lastCpuUsage) :
           /\ writer' = measureCpuHeap(clock, newCpuUsage, lastCpuUsage, lastCpuUsageTime)
           /\ lastCpuUsage' = Some(newCpuUsage)
    /\ lastCpuUsageTime' = Some(HrTime(clock))
    /\ SamplerStep("measureCpuHeap")
    /\ UNCHANGED <<immediates, clock, lastNanos, lastEventLoop, lastEventLoopTime>>

CpuNext ==
    \/ Elapse
    \/ SampleCpuHeap

CpuSpec == GcInit /\ [][CpuNext]_vars

-----------------------------------------------------------------------------
\* LagSpec: the lifecycle with the lag sampler firing, the firings milliseconds
\* apart or about one period apart.

\* The times of the firings, in milliseconds.
LagClocks == {ms * NanosPerMilli : ms \in {0, 1, 3, 6, 1000, 1001, 1002}}

ElapseMillis == ElapseTo(LagClocks)

LagNext ==
    \/ Start
    \/ Stop
    \/ ElapseMillis
    \/ FireEventLoopLag

LagSpec == Init /\ [][LagNext]_vars

-----------------------------------------------------------------------------
\* EluSpec: RuntimeMetrics.measureEventLoopUtilization(metrics) called on a
\* constructed instance at successive times, the capability assigned by the
\* caller as the unit test does, its active counter growing in between.

\* The times of the calls, in nanoseconds: 3 ms and 5 ms apart as the test's
\* calls are 3 s and 5 s apart, and two later ones.
EluClocks == {ms * NanosPerMilli : ms \in {0, 3, 8, 10, 15}}

\* What the active counter gains between two readings, in milliseconds.
ActiveGains == {0, 1, 2}

\* self.eventLoopUtilization(): the active time is cumulative and within the
\* time passed.
EluSamples(t, last) ==
    LET base == IF IsSome(last) THEN Get(last).active ELSE 0
    IN  {[active |-> base + d] :
            d \in {g \in ActiveGains : (base + g) * NanosPerMilli <= t}}

ElapseElu == ElapseTo(EluClocks)

\* metrics.eventLoopUtilization = () => ...
AssignCapability ==
    /\ ~eventLoopUtilization
    /\ eventLoopUtilization' = TRUE
    /\ writer' = <<>>
    /\ logged' = None
    /\ lastOp' = Op("assign")
    /\ UNCHANGED <<started, intervals, timers, immediates, clock, lastNanos, lastCpuUsage,
                   lastCpuUsageTime, lastEventLoop, lastEventLoopTime, liveDataSizeCache,
                   prevMapSize, prevLargeSize, nativeVars, eluCapable, gcVars, sumVars,
                   deltaVars, auxVars, lastCall>>

\* RuntimeMetrics.measureEventLoopUtilization(self)
CallEventLoopUtilization ==
    /\ IF ~eventLoopUtilization
       THEN /\ writer' = <<>>
            /\ UNCHANGED <<lastEventLoop, lastEventLoopTime>>
       ELSE \E current \in EluSamples(clock, lastEventLoop) :
                /\ writer' = measureEventLoopUtilization(clock, current, lastEventLoopTime,
                                                         lastEventLoop)
                /\ lastEventLoopTime' = Some(HrTime(clock))
                /\ lastEventLoop' = Some(current)
    /\ SamplerStep("measureEventLoopUtilization")
    /\ UNCHANGED <<immediates, clock, lastNanos, lastCpuUsage, lastCpuUsageTime>>

EluNext ==
    \/ ElapseElu
    \/ AssignCapability
    \/ CallEventLoopUtilization

EluSpec == GcInit /\ [][EluNext]_vars

-----------------------------------------------------------------------------
\* CapSpec: the lifecycle on a runtime with or without
\* performance.eventLoopUtilization, the utilization sampler fired by its timer
\* and called directly.

CapNext ==
    \/ Start
    \/ Stop
    \/ Tick
    \/ FireEventLoopUtilization
    \/ CallEventLoopUtilization

CapSpec == Init /\ [][CapNext]_vars

-----------------------------------------------------------------------------
\* FdSpec: RuntimeMetrics.measureFdActivity(metrics, fdFunction) called on a
\* constructed instance with the samples of the unit test, the registry writing
\* to a MemoryWriter that the test clears.

\* Most lines the MemoryWriter holds between two clear() calls.
MaxLines == 6

\* What the test's fdFunction returns, and a limit of zero descriptors.
TestFdSamples ==
    {[used |-> 42, max |-> Some(32768)], [used |-> 1, max |-> Some(1024)],
     [used |-> 1, max |-> None], [used |-> 3, max |-> Some(0)]}

\* RuntimeMetrics.measureFdActivity(self, fdFunction)
CallFdActivity ==
    /\ Len(memoryWriter) + 2 <= MaxLines
    /\ \E fd \in TestFdSamples :
           /\ fdSample' = Some(fd)
           /\ writer' = measureFdActivity(fd)
           /\ memoryWriter' = memoryWriter \o measureFdActivity(fd)
    /\ lastOp' = Op("measureFdActivity")
    /\ UNCHANGED <<lifeVars, samplerCaches, nativeVars, gcVars, sumVars, deltaVars,
                   ctorVars, other, running, native>>

\* writer.clear()
ClearWriter ==
    /\ memoryWriter # <<>>
    /\ memoryWriter' = <<>>
    /\ writer' = <<>>
    /\ lastOp' = Op("clear")
    /\ UNCHANGED <<lifeVars, samplerCaches, nativeVars, gcVars, sumVars, deltaVars,
                   native, fdSample, ctorVars, other, running>>

FdNext ==
    \/ CallFdActivity
    \/ ClearWriter

FdSpec == GcInit /\ [][FdNext]_vars

-----------------------------------------------------------------------------
\* LoopSpec: the lifecycle with the round-trip sampler firing and the event loop
\* running its setImmediate callbacks, milliseconds apart.

\* The times of the firings and of the callbacks, in nanoseconds.
LoopClocks == {ms * NanosPerMilli : ms \in {0, 1, 3, 7}}

ElapseLoop == ElapseTo(LoopClocks)

LoopNext ==
    \/ Start
    \/ Stop
    \/ ElapseLoop
    \/ FireEventLoopTime
    \/ RunImmediate

LoopSpec == Init /\ [][LoopNext]_vars

-----------------------------------------------------------------------------
\* CtorSpec: `new RuntimeMetrics(registry)` on a runtime with or without
\* process.cpuUsage and v8.getHeapSpaceStatistics, and the lifecycle of the
\* instance if there is one.

Runtimes == [cpuUsage : BOOLEAN, heapSpaceStatistics : BOOLEAN]

\* The object allocated and its field initializers run, the body of the
\* constructor about to run.
CtorInit ==
    /\ FieldInitializers
    /\ capabilities \in Runtimes
    /\ construction = "pending"
    /\ meters = {}
    /\ eluCapable \in BOOLEAN

\* A constructor without the test of the runtime.
ConstructUnchecked ==
    /\ construction = "pending"
    /\ construction' = "constructed"
    /\ meters' = FixedMeters
    /\ writer' = <<>>
    /\ logged' = None
    /\ lastOp' = Op("constructor")
    /\ UNCHANGED <<started, intervals, timers, immediates, clock, samplerVars, nativeVars,
                   eluCapable, gcVars, sumVars, deltaVars, native, fdVars, capabilities, other,
                   running, lastCall>>

\* The body of the constructor: the test of the runtime and its throw, then the
\* fifteen meters.
Construct ==
    /\ construction = "pending"
    /\ IF ~capabilities.cpuUsage \/ ~capabilities.heapSpaceStatistics
       THEN /\ construction' = "threw"
            /\ meters' = meters
       ELSE /\ construction' = "constructed"
            /\ meters' = FixedMeters
    /\ writer' = <<>>
    /\ logged' = None
    /\ lastOp' = Op("constructor")
    /\ UNCHANGED <<started, intervals, timers, immediates, clock, samplerVars, nativeVars,
                   eluCapable, gcVars, sumVars, deltaVars, native, fdVars, capabilities, other,
                   running, lastCall>>

\* Only a constructed instance can be started, stopped and sampled.
CtorNext ==
    \/ Construct
    \/ construction = "constructed" /\ Start
    \/ construction = "constructed" /\ Stop
    \/ construction = "constructed" /\ Tick
    \/ construction = "constructed" /\ FireCpuHeap

CtorSpec == CtorInit /\ [][CtorNext]_vars

-----------------------------------------------------------------------------
\* RunSpec: an instance that is started and never stopped, every sampler
\* firing, and the handler it registered called with GC events.

\* The times of the firings, in nanoseconds.
RunClocks == {0, NanosPerMicro}

ElapseRun == ElapseTo(RunClocks)

\* The handler of the current gcResource called with an event.
HandleHookEvent ==
    /\ gcResource # 0
    /\ \E event \in HookEvents :
           /\ RunHandler(event)
           /\ lastOp' = Op("gcEvent")
           /\ UNCHANGED <<lifeVars, nativeVars, sumVars, deltaVars, auxVars>>

RunNext ==
    \/ Start
    \/ FireFdActivity
    \/ FireEventLoopLag
    \/ FireEventLoopTime
    \/ RunImmediate
    \/ FireEventLoopUtilization
    \/ FireCpuHeap
    \/ ElapseRun
    \/ HandleHookEvent

RunSpec == GcInit /\ [][RunNext]_vars

-----------------------------------------------------------------------------
\* TwoSpec: two RuntimeMetrics instances in one process, each with its own
\* registry, and the one native GC hook. Of the second instance the model
\* keeps what its lifecycle and the hook use: started, intervals, the handler
\* closures it registered and its liveDataSizeCache.

\* start() of the second instance.
StartOther ==
    /\ IF other.started
       THEN UNCHANGED <<other, timers, immediates, prevMapSize, prevLargeSize, gcResource,
                        epilogueCallbacks>>
       ELSE /\ epilogueCallbacks < MaxStarts
            /\ Len(immediates) < MaxImmediates
            /\ prevMapSize' = None
            /\ prevLargeSize' = None
            /\ gcResource' = epilogueCallbacks + 1
            /\ epilogueCallbacks' = epilogueCallbacks + 1
            /\ immediates' = Append(immediates, [stage |-> "first",
                                                 scheduled |-> HrTime(clock),
                                                 start |-> HrTime(0)])
            /\ \E st \in {ScheduleAll([timers |-> timers, intervals |-> other.intervals],
                                      Scheduled(eluCapable))} :
                   /\ timers' = st.timers
                   /\ other' = [other EXCEPT !.started = TRUE,
                                             !.intervals = st.intervals,
                                             !.closures = @ \cup {epilogueCallbacks + 1}]
    /\ writer' = <<>>
    /\ logged' = None
    /\ lastOp' = Op("startOther")
    /\ UNCHANGED <<started, intervals, clock, lastNanos, lastCpuUsage, lastCpuUsageTime,
                   eventLoopUtilization, lastEventLoop, lastEventLoopTime, liveDataSizeCache,
                   asyncQueue, gcCount, handlerRuns, eluCapable, gcVars, sumVars, deltaVars,
                   native, fdVars, ctorVars, running, lastCall>>

\* stop() of the second instance.
StopOther ==
    /\ timers' = ClearAll(timers, other.intervals)
    /\ other' = [other EXCEPT !.started = FALSE]
    /\ writer' = <<>>
    /\ logged' = None
    /\ lastOp' = Op("stopOther")
    /\ UNCHANGED <<started, intervals, immediates, clock, samplerVars, nativeVars,
                   eluCapable, gcVars, sumVars, deltaVars, native, fdVars, ctorVars, running,
                   lastCall>>

TwoNext ==
    \/ Start
    \/ Stop
    \/ StartOther
    \/ StopOther
    \/ GcOccurs
    \/ AsyncCallback

TwoSpec == GcInit /\ [][TwoNext]_vars

-----------------------------------------------------------------------------
\* QueueSpec: the GC hook with a run of the handler taken as two steps, its
\* begin and its end, so that collections happen while it runs. start() and
\* stop() are JavaScript of the same thread and wait for the handler to return.

\* The event loop calls async_callback for the handle that was initialised
\* last, not first.
HandlerBeginNewest ==
    /\ running = None
    /\ asyncQueue # <<>>
    /\ asyncQueue' = SubSeq(asyncQueue, 1, Len(asyncQueue) - 1)
    /\ running' = IF gcResource = 0 THEN None
                  ELSE Some([gc |-> asyncQueue[Len(asyncQueue)].gc,
                             event |-> asyncQueue[Len(asyncQueue)].event,
                             closure |-> gcResource])
    /\ writer' = <<>>
    /\ logged' = None
    /\ lastOp' = Op("gcEventBegin")
    /\ UNCHANGED <<started, intervals, timers, immediates, clock, samplerVars, gcResource,
                   epilogueCallbacks, gcCount, handlerRuns, eluCapable, gcVars, sumVars,
                   deltaVars, native, fdVars, ctorVars, other, lastCall>>

\* The event loop calls async_callback for the oldest pending handle: without a
\* gcResource the GCInfo is dropped, otherwise the callback of the current
\* gcResource is entered with the serialized event.
HandlerBegin ==
    /\ running = None
    /\ asyncQueue # <<>>
    /\ asyncQueue' = Tail(asyncQueue)
    /\ running' = IF gcResource = 0 THEN None
                  ELSE Some([gc |-> Head(asyncQueue).gc, event |-> Head(asyncQueue).event,
                             closure |-> gcResource])
    /\ writer' = <<>>
    /\ logged' = None
    /\ lastOp' = Op("gcEventBegin")
    /\ UNCHANGED <<started, intervals, timers, immediates, clock, samplerVars, gcResource,
                   epilogueCallbacks, gcCount, handlerRuns, eluCapable, gcVars, sumVars,
                   deltaVars, native, fdVars, ctorVars, other, lastCall>>

\* The handler returns: what it wrote and kept, then delete info and uv_close.
HandlerEnd ==
    /\ running # None
    /\ IF Get(running).closure \in other.closures
       THEN RunOtherHandler(Get(running).event)
       ELSE RunHandler(Get(running).event) /\ UNCHANGED other
    /\ handlerRuns' = [handlerRuns EXCEPT ![Get(running).gc] =
                           [@ EXCEPT !.runs = @ + 1, !.to = Append(@, Get(running).closure)]]
    /\ running' = None
    /\ logged' = None
    /\ lastOp' = Op("gcEvent")
    /\ UNCHANGED <<started, intervals, timers, immediates, clock, lastNanos, lastCpuUsage,
                   lastCpuUsageTime, eventLoopUtilization, lastEventLoop, lastEventLoopTime,
                   gcResource, epilogueCallbacks, asyncQueue, gcCount, eluCapable, sumVars,
                   deltaVars, native, fdVars, ctorVars, lastCall>>

QueueNext ==
    \/ running = None /\ Start
    \/ running = None /\ Stop
    \/ GcOccurs
    \/ HandlerBegin
    \/ HandlerEnd

QueueSpec == Init /\ [][QueueNext]_vars

-----------------------------------------------------------------------------
\* AtomSpec: the GC hook with a run of the handler taken as two steps, and
\* the timers of the samplers due meanwhile. A timer callback, start() and
\* stop() are JavaScript of the one thread: they run when the handler, which
\* awaits nothing and defers nothing, is not on the stack.

\* Any callback may run, a handler on the stack or not.
IdleAlways == TRUE

\* No run of the GC handler is on the stack.
Idle == running = None

AtomNext ==
    \/ Idle /\ Start
    \/ Idle /\ Stop
    \/ Idle /\ FireFdActivity
    \/ Idle /\ FireEventLoopLag
    \/ Idle /\ FireEventLoopUtilization
    \/ Idle /\ FireCpuHeap
    \/ GcOccurs
    \/ HandlerBegin
    \/ HandlerEnd

AtomSpec == Init /\ [][AtomNext]_vars

-----------------------------------------------------------------------------
\* LiveSpec: the lifecycle and the round-trip sampler with the registry writing
\* to a MemoryWriter that is never cleared, as in the test "should generate a
\* few meters". A setImmediate callback keeps the event loop alive until it has
\* run, so the loop runs every pending one (weak fairness); the interval
\* timers are unref'd (scheduleTask), so none of them has to fire.

\* The MemoryWriter keeps the lines of the step, MaxLines of them at most.
Recorded ==
    memoryWriter' = SubSeq(memoryWriter \o writer', 1,
                           IF Len(memoryWriter) + Len(writer') > MaxLines
                           THEN MaxLines ELSE Len(memoryWriter) + Len(writer'))

\* start()
StartRecorded ==
    /\ IF started
       THEN StartRunning
       ELSE /\ StartCore
            /\ Recorded
    /\ lastCall' = "start"
    /\ lastOp' = Op("start")

\* The event loop runs the oldest setImmediate callback.
RunImmediateRecorded ==
    /\ RunImmediateCore
    /\ Recorded

LiveNext ==
    \/ StartRecorded
    \/ Stop
    \/ FireEventLoopTime
    \/ RunImmediateRecorded

LiveSpec == Init /\ [][LiveNext]_vars /\ WF_vars(RunImmediateRecorded)

-----------------------------------------------------------------------------
\* RestartSpec: start(), stop() and start() again, microseconds apart, with the
\* CPU/heap task firing while the instance runs. No lag task fires here, so
\* lastNanos stays the timestamp initEventLoopLag took in the latest start()
\* that found the instance stopped.

\* The times of the calls and of the firings, in nanoseconds.
RestartClocks == {us * NanosPerMicro : us \in {0, 2, 5}}

ElapseRestart == ElapseTo(RestartClocks)

RestartNext ==
    \/ Start
    \/ Stop
    \/ ElapseRestart
    \/ FireCpuHeap

RestartSpec == Init /\ [][RestartNext]_vars

-----------------------------------------------------------------------------
\* CacheSpec: the lifecycle, the timers of the samplers and the handler that
\* start() registered called with GC events of either type, with an old_space
\* that shrinks, grows or stays, or without old_space.

CacheEvents ==
    OldEvents
    \cup {GcEvent(t, 1, MaxSize + 1, <<HeapSpace("code_space", MaxSize)>>,
                  <<HeapSpace("code_space", 0)>>) : t \in GcTypes}

\* The handler of the current gcResource called with an event.
HandleCacheEvent ==
    /\ gcResource # 0
    /\ \E event \in CacheEvents :
           /\ RunHandler(event)
           /\ lastOp' = Op("gcEvent")
           /\ UNCHANGED <<lifeVars, nativeVars, sumVars, deltaVars, auxVars>>

CacheNext ==
    \/ Start
    \/ Stop
    \/ FireFdActivity
    \/ FireEventLoopLag
    \/ FireEventLoopUtilization
    \/ FireCpuHeap
    \/ HandleCacheEvent

CacheSpec == GcInit /\ [][CacheNext]_vars

-----------------------------------------------------------------------------
\* NativeSpec: the addon from module init to process exit. The functions of the
\* addon are sequences of pointer operations; every GCInfo and uv_async_t that
\* afterGC allocates has an entry in native.allocs counting its `delete info`,
\* uv_close and `delete handle`, and native.faults names the pointers that were
\* used while null or freed. gcResource and the queue of sent handles are the
\* variables of HookSpec, a queue entry carrying the index of its allocation.

\* The pointer an operation goes through.
Uses(op) ==
    CASE op \in {"handle->data", "uv_close"} -> "handle"
      [] op \in {"info->elapsed", "info->serialize", "info->type", "delete info"} -> "info"
      [] op \in {"gcResource->callback", "gcResource->runInAsyncScope"} -> "gcResource"
      [] op \in {"before_stats->collect", "*before_stats"} -> "before_stats"

\* The pointer is neither null nor freed.
Valid(n, pointer, id) ==
    CASE pointer = "handle" -> n.allocs[id].handle = 0
      [] pointer = "info" -> n.allocs[id].info = 0
      [] pointer = "gcResource" -> gcResource # 0
      [] pointer = "before_stats" -> n.before_stats

\* One operation on the GCInfo and handle of allocation id.
Exec(op, n, id) ==
    LET checked == IF Valid(n, Uses(op), id) THEN n
                   ELSE [n EXCEPT !.faults = @ \cup {Uses(op)}]
    IN  CASE op = "delete info" -> [checked EXCEPT !.allocs[id].info = @ + 1]
          [] op = "uv_close" -> [checked EXCEPT !.allocs[id].closed = @ + 1]
          [] OTHER -> checked

RECURSIVE RunOps(_, _, _)
RunOps(ops, n, id) ==
    IF ops = <<>> THEN n ELSE RunOps(Tail(ops), Exec(Head(ops), n, id), id)

\* async_callback that goes on to the callback whatever the state of the addon.
AsyncGuardNever(n) == FALSE

\* if (isolate_shutting_down || !gcResource) in async_callback
AsyncGuard(n) == n.isolate_shutting_down \/ gcResource = 0

\* The early return closing the handle and leaving the GCInfo.
ShutdownPathLeaky == <<"uv_close">>

\* async_callback, the early return: delete info; uv_close(handle, close_callback)
ShutdownPath == <<"delete info", "uv_close">>

\* async_callback past the test: the event is built from info, the callback of
\* gcResource is run, then delete info; uv_close(handle, close_callback)
NormalPath ==
    <<"info->elapsed", "info->serialize", "info->type", "gcResource->callback",
      "gcResource->runInAsyncScope", "delete info", "uv_close">>

\* The operations of async_callback(handle)
async_callback(n) ==
    <<"handle->data">> \o (IF AsyncGuard(n) THEN ShutdownPath ELSE NormalPath)

\* afterGC: the early return, or a GCInfo copying *before_stats and a handle
\* that is sent.
afterGC(n) ==
    IF n.isolate_shutting_down \/ ~n.before_stats
    THEN [native |-> n, sent |-> <<>>]
    ELSE LET r == Exec("*before_stats", n, 0)
         IN  [native |-> [r EXCEPT !.allocs = Append(@, [info |-> 0, closed |-> 0,
                                                         handle |-> 0])],
              sent |-> <<Len(n.allocs) + 1>>]

\* V8 calls afterGC once per entry of its epilogue callback list.
RECURSIVE Epilogue(_, _)
Epilogue(k, acc) ==
    IF k = 0 THEN acc
    ELSE LET r == afterGC(acc.native)
         IN  Epilogue(k - 1, [native |-> r.native, sent |-> acc.sent \o r.sent])

\* beforeGC: if (!isolate_shutting_down) before_stats->collect()
beforeGC(n) ==
    IF ~n.isolate_shutting_down THEN Exec("before_stats->collect", n, 0) ELSE n

\* A garbage collection: the prologue callback if it is registered, then the
\* epilogue callbacks.
NativeGc ==
    /\ gcCount < MaxGcs
    /\ \E event \in HookEvents :
       \E r \in {Epilogue(epilogueCallbacks,
                          [native |-> IF native.prologue THEN beforeGC(native) ELSE native,
                           sent |-> <<>>])} :
           /\ native' = r.native
           /\ asyncQueue' = asyncQueue
                  \o [i \in DOMAIN r.sent |->
                         [gc |-> gcCount + 1, event |-> event, id |-> r.sent[i]]]
    /\ gcCount' = gcCount + 1
    /\ writer' = <<>>
    /\ logged' = None
    /\ lastOp' = Op("gc")
    /\ UNCHANGED <<started, intervals, timers, immediates, clock, samplerVars, gcResource,
                   epilogueCallbacks, handlerRuns, eluCapable, gcVars, sumVars, deltaVars,
                   fdVars, ctorVars, other, running, lastCall>>

\* The event loop calls async_callback for the oldest sent handle.
NativeAsyncCallback ==
    /\ asyncQueue # <<>>
    /\ asyncQueue' = Tail(asyncQueue)
    /\ \E ops \in {async_callback(native)} :
           /\ native' = RunOps(ops, native, Head(asyncQueue).id)
           /\ IF \E i \in DOMAIN ops : ops[i] = "gcResource->runInAsyncScope"
              THEN /\ RunHandler(Head(asyncQueue).event)
                   /\ lastOp' = Op("gcEvent")
              ELSE /\ writer' = <<>>
                   /\ lastOp' = Op("gcDropped")
                   /\ UNCHANGED <<liveDataSizeCache, prevMapSize, prevLargeSize, gcVars>>
    /\ logged' = None
    /\ UNCHANGED <<started, intervals, timers, immediates, clock, lastNanos, lastCpuUsage,
                   lastCpuUsageTime, eventLoopUtilization, lastEventLoop, lastEventLoopTime,
                   gcResource, epilogueCallbacks, gcCount, handlerRuns, eluCapable, sumVars,
                   deltaVars, fdVars, ctorVars, other, running, lastCall>>

\* The event loop calls close_callback for a handle that uv_close was called
\* on: delete handle
CloseCallback ==
    /\ \E id \in DOMAIN native.allocs :
           /\ native.allocs[id].handle < native.allocs[id].closed
           /\ native' = [native EXCEPT !.allocs[id].handle = @ + 1]
    /\ writer' = <<>>
    /\ logged' = None
    /\ lastOp' = Op("close")
    /\ UNCHANGED <<started, intervals, timers, immediates, clock, samplerVars, nativeVars,
                   eluCapable, gcVars, sumVars, deltaVars, fdVars, ctorVars, other, running,
                   lastCall>>

\* cleanup, run once at exit. RemoveGCEpilogueCallback takes afterGC off V8's
\* list: one entry of it, or every entry, depending on the V8 of the build.
Cleanup ==
    /\ ~native.isolate_shutting_down
    /\ native' = [native EXCEPT !.isolate_shutting_down = TRUE, !.prologue = FALSE,
                                !.before_stats = FALSE]
    /\ epilogueCallbacks' \in {0, IF epilogueCallbacks > 0 THEN epilogueCallbacks - 1 ELSE 0}
    /\ gcResource' = 0
    /\ writer' = <<>>
    /\ logged' = None
    /\ lastOp' = Op("cleanup")
    /\ UNCHANGED <<started, intervals, timers, immediates, clock, samplerVars, asyncQueue,
                   gcCount, handlerRuns, eluCapable, gcVars, sumVars, deltaVars, fdVars,
                   ctorVars, other, running, lastCall>>

\* JavaScript runs until the exit: start() and stop() come before cleanup.
NativeNext ==
    \/ ~native.isolate_shutting_down /\ Start
    \/ ~native.isolate_shutting_down /\ Stop
    \/ NativeGc
    \/ NativeAsyncCallback
    \/ CloseCallback
    \/ Cleanup

NativeSpec == Init /\ [][NativeNext]_vars

-----------------------------------------------------------------------------
\* Properties of the lifecycle (Spec) and of the GC hook (HookSpec).

\* The state of the instance and of what it registered.
instanceVars == <<started, intervals, timers, immediates, samplerVars, gcResource,
                  epilogueCallbacks>>

ActiveTimers == {id \in DOMAIN timers : timers[id].active}

\* C1: start() on a running instance registers no periodic task and no GC
\* handler, re-seeds no sampler state and leaves started = true: the state of the
\* instance after it is the state before it.
C1_StartIdempotent ==
    [][(lastOp'.name = "start" /\ lastOp'.wasStarted)
          => (started' /\ UNCHANGED instanceVars)]_vars

\* A start() on a running instance, at a time when re-seeding would show.
C1_Witness ==
    /\ lastOp.name = "start"
    /\ lastOp.wasStarted
    /\ started
    /\ lastNanos # Nanos(HrTime(clock))
    /\ IsSome(lastCpuUsage)

\* C2: when stop() has returned, no periodic task registered by an earlier
\* start() is active, whatever start()/stop() calls came before.
C2_StopCancelsAll ==
    lastOp.name = "stop" => ActiveTimers = {}

\* stop() of the second start/stop cycle.
C2_Witness ==
    /\ lastOp.name = "stop"
    /\ lastOp.wasStarted
    /\ epilogueCallbacks = 2
    /\ Len(timers) > Len(Scheduled(eluCapable))

\* C3: started is false after construction, and after any start()/stop() calls
\* it is true exactly when the most recent call was start().
C3_StartedFollowsLastCall ==
    /\ started <=> (lastCall = "start")
    /\ lastCall = "none" => ~started

\* Running again after a stop().
C3_Witness ==
    /\ started
    /\ lastCall = "start"
    /\ epilogueCallbacks = 2

\* C4: stop() on a stopped instance changes neither started, nor the periodic
\* tasks, nor any sampler state, and it can always be called.
C4_StopWhenStoppedIsNoOp ==
    /\ [](ENABLED Stop)
    /\ [][(lastOp'.name = "stop" /\ ~lastOp'.wasStarted)
             => (~started' /\ UNCHANGED instanceVars)]_vars

\* stop() on an instance stopped before, at a time later than its last sample.
C4_Witness ==
    /\ lastOp.name = "stop"
    /\ ~lastOp.wasStarted
    /\ Len(intervals) > 0
    /\ lastNanos # Nanos(HrTime(clock))

\* C5: the instance holds one handle per scheduled sampler when running and
\* none when stopped, after any number of start()/stop() cycles.
C5_OneHandlePerSampler ==
    Len(intervals) = IF started THEN Len(Scheduled(eluCapable)) ELSE 0

\* C6: the handler registered by measureGcEvents runs at most once for a
\* collection, and exactly once when the notifications of a collection that
\* happened after a start() have all been processed.
C6_HandlerRunsOncePerGc ==
    \A g \in DOMAIN handlerRuns :
        /\ handlerRuns[g].runs <= 1
        /\ (handlerRuns[g].hooked /\ \A i \in DOMAIN asyncQueue : asyncQueue[i].gc # g)
              => handlerRuns[g].runs = 1

-----------------------------------------------------------------------------
\* Properties of the GC event handler (GcSpec, GcSumSpec).

LiveDataSizeLine(v) == Line("g", "nodejs.gc.liveDataSize", withVersion(""), Num(v))

\* C7: for every GC event handled, whatever its heap spaces and type, the
\* maxDataSize gauge is left at event.after.heapSizeLimit (the last write) and
\* exactly one nodejs.gc.pause sample is recorded, tagged id = event.type, with
\* the value event.elapsed.
C7_MaxDataSizeAndPause ==
    IsSome(lastEvent) =>
        LET e == Get(lastEvent)
        IN  /\ gauges.maxDataSize = Some(Num(e.after.heapSizeLimit))
            /\ LinesOf(writer, "nodejs.gc.maxDataSize")
                 = << Line("g", "nodejs.gc.maxDataSize", withVersion(""),
                           Num(e.after.heapSizeLimit)) >>
            /\ LinesOf(writer, "nodejs.gc.pause")
                 = << Line("t", "nodejs.gc.pause", withVersion(e.type), Num(e.elapsed)) >>

\* A second event without any heap space, a markSweepCompact with the largest
\* elapsed value and a heap limit other than the one the gauge showed before.
C7_Witness ==
    /\ IsSome(lastEvent)
    /\ Get(lastEvent).before.heapSpaceStats = <<>>
    /\ Get(lastEvent).type = "markSweepCompact"
    /\ Get(lastEvent).elapsed = MaxElapsed
    /\ Get(lastEvent).after.heapSizeLimit = MaxSize + 2
    /\ IsSome(gauges.before)

\* C8: promotionRate is incremented for an event exactly when old_space used
\* grew over the collection, and then by after - before; so the increments
\* written sum to the sum of the positive old_space growths of the events.
C8_PromotionRate ==
    /\ IsSome(lastEvent) =>
          LinesOf(writer, "nodejs.gc.promotionRate")
            = IF OldGrowth(Get(lastEvent)) > 0
              THEN << Line("c", "nodejs.gc.promotionRate", withVersion(""),
                           Num(OldGrowth(Get(lastEvent)))) >>
              ELSE <<>>
    /\ promotionTotal = growthTotal

\* Three events, two of which grew old_space, the last one not.
C8_Witness ==
    /\ gcCount = MaxEvents
    /\ promotionTotal = MaxSize + 1
    /\ OldGrowth(Get(lastEvent)) = 0
    /\ HasOld(Get(lastEvent))

C10_LiveDataSizeIsLastMajor ==
    \A i \in DOMAIN writer :
        writer[i].name = "nodejs.gc.liveDataSize" =>
            /\ IsSome(expectedLiveDataSize)
            /\ writer[i].value = Num(Get(expectedLiveDataSize))

-----------------------------------------------------------------------------
\* Properties of the allocation accounting (GcAllocSpec).

\* The used size of the space `name` in a snapshot, 0 when the space is absent.
Used(stats, name) ==
    IF Entries(stats, name) = <<>> THEN 0 ELSE Entries(stats, name)[1].spaceUsedSize

\* What an event adds for a carried space: its before-used size less the
\* after-used size of the previous event that had the space, when positive.
Growth(event, name, prior) ==
    IF /\ Entries(event.before.heapSpaceStats, name) # <<>>
       /\ Entries(event.after.heapSpaceStats, name) # <<>>
       /\ IsSome(prior)
       /\ Used(event.before.heapSpaceStats, name) > Get(prior)
    THEN Used(event.before.heapSpaceStats, name) - Get(prior)
    ELSE 0

\* What an event reclaims from new_space, when positive.
Reclaimed(event) ==
    IF Used(event.before.heapSpaceStats, "new_space") > Used(event.after.heapSpaceStats, "new_space")
    THEN Used(event.before.heapSpaceStats, "new_space")
           - Used(event.after.heapSpaceStats, "new_space")
    ELSE 0

\* C11: for every event handled, allocationRate is incremented once, by the
\* new_space reclaim plus the map_space growth plus the large_object_space growth
\* since the previous event's after-used sizes, each counted when positive, and
\* it is not incremented when that total is zero.
C11_AllocationRate ==
    IsSome(lastEvent) =>
        LET e == Get(lastEvent)
            total == Reclaimed(e) + Growth(e, "map_space", tracked.priorMapSize)
                       + Growth(e, "large_object_space", tracked.priorLargeSize)
        IN  LinesOf(writer, "nodejs.gc.allocationRate")
              = IF total > 0
                THEN << Line("c", "nodejs.gc.allocationRate", withVersion(""), Num(total)) >>
                ELSE <<>>

\* The increment written for the latest event, 0 when there is none.
Allocated ==
    SumValues(LinesOf(writer, "nodejs.gc.allocationRate"))

\* An event has the space: an entry of that name before and after.
HasSpace(event, name) ==
    /\ Entries(event.before.heapSpaceStats, name) # <<>>
    /\ Entries(event.after.heapSpaceStats, name) # <<>>

\* C12: for every event that has map_space, the carried value is afterwards the
\* event's map_space after-used size, the first such event included; and when its
\* before-used size exceeds the after-used size of the previous event that had
\* the space, whatever that size was, the difference is part of the event's
\* allocationRate increment. The same holds of large_object_space.
C12_CarryOver ==
    IsSome(lastEvent) =>
        LET e == Get(lastEvent)
        IN  /\ HasSpace(e, "map_space") =>
                  /\ prevMapSize = Some(Used(e.after.heapSpaceStats, "map_space"))
                  /\ Allocated >= Growth(e, "map_space", tracked.priorMapSize)
            /\ HasSpace(e, "large_object_space") =>
                  /\ prevLargeSize = Some(Used(e.after.heapSpaceStats, "large_object_space"))
                  /\ Allocated >= Growth(e, "large_object_space", tracked.priorLargeSize)

\* The roles the handler knows.
Roles == {"new_space", "old_space", "map_space", "large_object_space"}

\* No entry of the before snapshot has a role.
NoRole(event) ==
    \A name \in Roles : Entries(event.before.heapSpaceStats, name) = <<>>

\* C13: an event whose before snapshot has no new_space, old_space, map_space or
\* large_object_space entry writes maxDataSize and the pause timer and nothing
\* else, and leaves liveDataSizeCache, prevMapSize and prevLargeSize as they
\* were; entries of other names count for nothing.
C13_NoRoleEvent ==
    [][(lastOp'.name = "gcEvent" /\ IsSome(lastEvent') /\ NoRole(Get(lastEvent')))
         => /\ Len(writer') = 2
            /\ writer'[1].name = "nodejs.gc.maxDataSize"
            /\ writer'[2].name = "nodejs.gc.pause"
            /\ UNCHANGED <<liveDataSizeCache, prevMapSize, prevLargeSize>>]_vars

\* A code_space event handled when all three carried values are defined.
C13_Witness ==
    /\ IsSome(lastEvent)
    /\ NoRole(Get(lastEvent))
    /\ Get(lastEvent).before.heapSpaceStats # <<>>
    /\ IsSome(liveDataSizeCache)
    /\ IsSome(prevMapSize)
    /\ IsSome(prevLargeSize)

\* C14: for each role, the after snapshot the handler uses is the entry of
\* event.after.heapSpaceStats that has the name of the before entry, whatever
\* the order and the lengths of the two collections.
C14_MatchedByName ==
    IsSome(lastEvent) =>
        \A name \in Roles :
            LET space == Classify(Get(lastEvent), name)
                named == Entries(Get(lastEvent).after.heapSpaceStats, name)
            IN  IsSome(space.before) =>
                    space.after = IF named = <<>> THEN None ELSE Some(named[1])

-----------------------------------------------------------------------------
\* Properties of the delta arithmetic (DeltaSpec).

\* floor(((end.s - start.s) * 10^9 + (end.n - start.n)) / 1000), as a wide number.
FloorMicros(end, start) ==
    LET ds == end[1] - start[1]
        f == (end[2] - start[2]) \div NanosPerMicro
    IN  IF f < 0 THEN <<ds - 1, MicrosPerSec + f>> ELSE <<ds, f>>

\* C16: for timestamps with 0 <= n < 10^9 and end not before start,
\* deltaMicros(end, start) is the whole number of microseconds between them,
\* also when end.n < start.n and however far apart the two are.
C16_DeltaMicrosExact ==
    IsSome(deltaResult) => Get(deltaResult) = FloorMicros(hrtimes[1], hrtimes[2])

-----------------------------------------------------------------------------
\* Properties of the CPU sampler (CpuSpec).

CpuLine(id, value) == Line("g", "nodejs.cpuUsage", withVersion(id), value)

\* C15: for two consecutive measureCpuHeap samples E microseconds apart, E being
\* deltaMicros of their timestamps, with the cumulative CPU time grown by D, the
\* nodejs.cpuUsage gauge of the matching id is set to D / E * 100, for user and
\* for system.
C15_CpuPercentage ==
    [][(lastOp'.name = "measureCpuHeap" /\ IsSome(lastCpuUsage) /\ IsSome(lastCpuUsageTime))
         => LET E == Micros(deltaMicros(Get(lastCpuUsageTime'), Get(lastCpuUsageTime)))
                Duser == Get(lastCpuUsage').user - Get(lastCpuUsage).user
                Dsystem == Get(lastCpuUsage').system - Get(lastCpuUsage).system
            IN  LinesOf(writer', "nodejs.cpuUsage")
                  = << CpuLine("user", Frac(Duser * 100, E)),
                       CpuLine("system", Frac(Dsystem * 100, E)) >>]_vars

\* A sample taken across the turn of a second, one microsecond after the
\* previous one, user and system time having grown by different amounts.
C15_Witness ==
    /\ lastOp.name = "measureCpuHeap"
    /\ lastCpuUsageTime = Some(<<1, 500>>)
    /\ LinesOf(writer, "nodejs.cpuUsage")
         = << CpuLine("user", Num(300)), CpuLine("system", Num(200)) >>
    /\ Get(lastCpuUsage).user = MaxCpu

\* C17: the first measureCpuHeap call on a new instance writes no
\* nodejs.cpuUsage value; every later call writes the user and the system
\* value; and every call leaves the sample it took, with its timestamp, as the
\* previous-sample state.
C17_FirstSampleSeeds ==
    [][(lastOp'.name = "measureCpuHeap")
         => /\ (lastCpuUsage = None /\ lastCpuUsageTime = None)
                  => LinesOf(writer', "nodejs.cpuUsage") = <<>>
            /\ (IsSome(lastCpuUsage) /\ IsSome(lastCpuUsageTime))
                  => /\ Len(LinesOf(writer', "nodejs.cpuUsage")) = 2
                     /\ LinesOf(writer', "nodejs.cpuUsage")[1].id = "user"
                     /\ LinesOf(writer', "nodejs.cpuUsage")[2].id = "system"
            /\ lastCpuUsageTime' = Some(HrTime(clock'))
            /\ lastCpuUsage' \in {Some(u) : u \in CpuSamples(lastCpuUsage)}]_vars

\* A later call, 3500 ns into the run, has written both values.
C17_Witness ==
    /\ lastOp.name = "measureCpuHeap"
    /\ Len(LinesOf(writer, "nodejs.cpuUsage")) = 2
    /\ lastCpuUsageTime = Some(<<0, 3500>>)

-----------------------------------------------------------------------------
\* Properties of the lag sampler (LagSpec).

LagLine(nanos) == Line("t", "nodejs.eventLoopLag", withVersion(""), Frac(nanos, NanosPerSec))

\* C18: when the timestamp a firing of the lag sampler reads is period + k
\* nanoseconds after the one the previous firing read, the firing records k
\* nanoseconds, in seconds, if k > 0, and records nothing if k <= 0.
C18_LagBeyondPeriod ==
    [][(lastOp'.name = "measureEventLoopLag")
         => LET k == Nanos(HrTime(clock')) - lastNanos - LagPeriodMillis * NanosPerMilli
            IN  LinesOf(writer', "nodejs.eventLoopLag")
                  = IF k > 0 THEN <<LagLine(k)>> ELSE <<>>]_vars

C20_LastNanosFollows ==
    [][/\ (lastOp'.name = "measureEventLoopLag")
            => /\ lastNanos' = Nanos(HrTime(clock'))
               /\ (Nanos(HrTime(clock')) - lastNanos <= 0)
                     => LinesOf(writer', "nodejs.eventLoopLag") = <<>>
       /\ (lastOp'.name = "start" /\ ~lastOp'.wasStarted)
            => lastNanos' = Nanos(HrTime(clock'))]_vars

\* After the second start(), a firing at the time lastNanos already holds has
\* recorded nothing.
C20_Witness ==
    /\ lastOp.name = "measureEventLoopLag"
    /\ writer = <<>>
    /\ epilogueCallbacks = 2
    /\ clock > 0


-----------------------------------------------------------------------------
\* Properties of the utilization sampler (EluSpec).

EluLine(value) == Line("g", "nodejs.eventLoopUtilization", withVersion(""), value)

\* C21: a call of measureEventLoopUtilization that finds a snapshot of an
\* earlier time writes exactly one nodejs.eventLoopUtilization value,
\* 100 * (active - lastActive) / (now - lastTimestamp) with the active times
\* taken from milliseconds to nanoseconds, whatever the active delta is, zero
\* included.
C21_UtilizationEveryDelta ==
    [][(/\ lastOp'.name = "measureEventLoopUtilization"
        /\ eventLoopUtilization
        /\ IsSome(lastEventLoopTime) /\ IsSome(lastEventLoop)
        /\ Nanos(HrTime(clock')) > Nanos(Get(lastEventLoopTime)))
         => writer' = << EluLine(Frac(
                100 * (Get(lastEventLoop').active - Get(lastEventLoop).active) * NanosPerMilli,
                Nanos(HrTime(clock')) - Nanos(Get(lastEventLoopTime)))) >>]_vars

\* C22: a call of measureEventLoopUtilization that finds no snapshot writes
\* nothing; every call with the capability present leaves lastEventLoopTime at
\* the timestamp it read and lastEventLoop at a reading of the capability,
\* whether it wrote a value or not.
C22_SnapshotOverwritten ==
    [][(lastOp'.name = "measureEventLoopUtilization" /\ eventLoopUtilization)
         => /\ lastEventLoopTime' = Some(HrTime(clock'))
            /\ IsSome(lastEventLoop')
            /\ Get(lastEventLoop') \in EluSamples(clock', lastEventLoop)
            /\ (lastEventLoopTime = None /\ lastEventLoop = None) => writer' = <<>>]_vars

\* The first call, at 3 ms with 2 ms of active time read, has written nothing
\* and left both in the snapshot.
C22_Witness ==
    /\ lastOp.name = "measureEventLoopUtilization"
    /\ writer = <<>>
    /\ lastEventLoopTime = Some(<<0, 3 * NanosPerMilli>>)
    /\ lastEventLoop = Some([active |-> 2])


-----------------------------------------------------------------------------
\* Properties of the optional capability (CapSpec).

\* C23: on a runtime without performance.eventLoopUtilization a start() that
\* finds the instance stopped leaves it started, with the informational log and
\* without a timer of measureEventLoopUtilization; no step writes a
\* nodejs.eventLoopUtilization value; and a direct call of
\* measureEventLoopUtilization leaves the instance and its timers as they were.
C23_CapabilityAbsent ==
    [][~eluCapable
         => /\ (lastOp'.name = "start" /\ ~lastOp'.wasStarted)
                 => /\ started'
                    /\ logged' = Some("Unable to measure eventLoopUtilization")
                    /\ \A id \in DOMAIN timers' :
                           timers'[id].task # "measureEventLoopUtilization"
            /\ LinesOf(writer', "nodejs.eventLoopUtilization") = <<>>
            /\ ~eventLoopUtilization'
            /\ (lastOp'.name = "measureEventLoopUtilization")
                 => /\ writer' = <<>>
                    /\ UNCHANGED <<instanceVars, immediates, clock, samplerVars, nativeVars>>]_vars

\* Without the capability, a direct call on the started instance, whose four
\* timers are those of the other samplers.
C23_Witness ==
    /\ ~eluCapable
    /\ started
    /\ lastOp.name = "measureEventLoopUtilization"
    /\ Len(timers) = 4


-----------------------------------------------------------------------------
\* Properties of the fd sampler (FdSpec).

OpenFdLine(v) == Line("g", "openFileDescriptorsCount", withVersion(""), Num(v))

MaxFdLine(v) == Line("g", "maxFileDescriptorsCount", withVersion(""), Num(v))

\* C24: a call of measureFdActivity writes openFileDescriptorsCount once, with
\* the used value of its sample; it writes maxFileDescriptorsCount only for a
\* sample that carries a max, and then that max; for a sample whose max is null
\* it writes the used gauge alone and the ceiling values written so far stay as
\* they were.
C24_FdGauges ==
    [][(lastOp'.name = "measureFdActivity")
         => LET fd == Get(fdSample')
            IN  /\ LinesOf(writer', "openFileDescriptorsCount") = <<OpenFdLine(fd.used)>>
                /\ LinesOf(writer', "maxFileDescriptorsCount") # <<>>
                     => /\ IsSome(fd.max)
                        /\ LinesOf(writer', "maxFileDescriptorsCount")
                             = <<MaxFdLine(Get(fd.max))>>
                /\ fd.max = None
                     => /\ writer' = <<OpenFdLine(fd.used)>>
                        /\ LinesOf(memoryWriter', "maxFileDescriptorsCount")
                             = LinesOf(memoryWriter, "maxFileDescriptorsCount")]_vars

\* After the sample {used: 42, max: 32768}, the sample {used: 1, max: null}
\* has written the used gauge alone.
C24_Witness ==
    /\ lastOp.name = "measureFdActivity"
    /\ fdSample = Some([used |-> 1, max |-> None])
    /\ writer = <<OpenFdLine(1)>>
    /\ memoryWriter = <<OpenFdLine(42), MaxFdLine(32768), OpenFdLine(1)>>


-----------------------------------------------------------------------------
\* Properties of the round-trip sampler (LoopSpec).

EventLoopLine(nanos) == Line("t", "nodejs.eventLoop", withVersion(""), Frac(nanos, NanosPerSec))

\* The setImmediate callback the step runs.
Ran == Head(immediates)

\* C25: a firing of measureEventLoopTime and the first of its two deferred
\* callbacks record nothing, the second callback records exactly one
\* nodejs.eventLoop sample, and that sample is the time from the firing's
\* setImmediate call to the run of the second callback.
C25_RoundTripFromScheduling ==
    [][/\ (lastOp'.name = "measureEventLoopTime")
            => /\ writer' = <<>>
               /\ Len(immediates') = Len(immediates) + 1
       /\ (lastOp'.name = "immediate" /\ Ran.stage = "first")
            => /\ writer' = <<>>
               /\ Len(immediates') = Len(immediates)
       /\ (lastOp'.name = "immediate" /\ Ran.stage = "second")
            => /\ writer' = <<EventLoopLine(Nanos(HrTime(clock')) - Nanos(Ran.scheduled))>>
               /\ Len(immediates') = Len(immediates) - 1]_vars

\* C25, amended: the same, the sample being the time from the run of the first
\* deferred callback, which takes the start timestamp, to the run of the second.
C25_RoundTripFromFirstCallback ==
    [][/\ (lastOp'.name = "measureEventLoopTime")
            => /\ writer' = <<>>
               /\ Len(immediates') = Len(immediates) + 1
               /\ immediates'[Len(immediates')].stage = "first"
       /\ (lastOp'.name = "immediate" /\ Ran.stage = "first")
            => /\ writer' = <<>>
               /\ Len(immediates') = Len(immediates)
               /\ immediates'[Len(immediates')].stage = "second"
               /\ immediates'[Len(immediates')].start = HrTime(clock')
       /\ (lastOp'.name = "immediate" /\ Ran.stage = "second")
            => /\ writer' = <<EventLoopLine(Nanos(HrTime(clock')) - Nanos(Ran.start))>>
               /\ Len(immediates') = Len(immediates) - 1]_vars

\* The second callback ran at 3 ms, 2 ms after the first, and recorded 0.002 s,
\* the firings' callbacks behind it in the queue.
C25_Witness ==
    /\ lastOp.name = "immediate"
    /\ clock = 3 * NanosPerMilli
    /\ writer = << Line("t", "nodejs.eventLoop", withVersion(""), <<1, 500>>) >>
    /\ immediates # <<>>


-----------------------------------------------------------------------------
\* Properties of the handles and of the lines (Spec).

\* What keeps the event loop of the process alive: a referenced timer that was
\* not cleared, or a setImmediate callback still to run.
KeepsAlive ==
    \/ \E id \in DOMAIN timers : timers[id].active /\ timers[id].hasRef
    \/ immediates # <<>>

\* C26: in every state each handle in this.intervals, and each timer there is,
\* is unref'd, so once the deferred callbacks have run nothing of the instance
\* keeps the event loop alive.
C26_TasksArePassive ==
    /\ \A i \in DOMAIN intervals : ~timers[intervals[i]].hasRef
    /\ \A id \in DOMAIN timers : ~timers[id].hasRef
    /\ immediates = <<>> => ~KeepsAlive

\* A started and never stopped instance with its five timers, the deferred
\* callbacks of start() done: nothing keeps the loop alive.
C26_Witness ==
    /\ started
    /\ lastCall = "start"
    /\ epilogueCallbacks = 1
    /\ Len(intervals) = 5
    /\ \A i \in DOMAIN intervals : timers[intervals[i]].active
    /\ ~KeepsAlive


-----------------------------------------------------------------------------
\* Properties of the constructor (CtorSpec).

\* The runtime lacks process.cpuUsage or v8.getHeapSpaceStatistics.
Unsupported == ~capabilities.cpuUsage \/ ~capabilities.heapSpaceStatistics

\* C27: on a runtime without process.cpuUsage or v8.getHeapSpaceStatistics the
\* constructor throws at once, no meter created on the registry and no field
\* assigned; nothing is started or sampled on such a runtime, so the failure
\* never waits for start() or for a sampling pass.
C27_ConstructorFailsFirst ==
    [][Unsupported
         => /\ (lastOp'.name = "constructor")
                 => /\ construction' = "threw"
                    /\ meters' = {}
                    /\ UNCHANGED <<instanceVars, nativeVars>>
            /\ construction' # "constructed"
            /\ lastOp'.name \notin {"start", "stop", "measureCpuHeap"}
            /\ ~started']_vars

\* Without v8.getHeapSpaceStatistics the constructor has thrown and the
\* registry holds no meter.
C27_Witness ==
    /\ capabilities = [cpuUsage |-> TRUE, heapSpaceStatistics |-> FALSE]
    /\ construction = "threw"
    /\ lastOp.name = "constructor"
    /\ meters = {}


-----------------------------------------------------------------------------
\* Properties of the lines (RunSpec).

\* C28: every line written to the registry, by a sampler or by the GC handler,
\* of a fixed meter, of nodejs.gc.pause or of a gauge named after a heap or
\* heap-space statistic, carries the tag nodejs.version = process.version.
C28_EveryLineHasVersion ==
    \A i \in DOMAIN writer : writer[i].version = NodeVersion

\* The handler has written the lines of a GC event, nodejs.gc.pause among
\* them, on an instance whose samplers wrote theirs before.
C28_Witness ==
    /\ lastOp.name = "gcEvent"
    /\ LinesOf(writer, "nodejs.gc.pause") # <<>>
    /\ lastCpuUsage # None
    /\ \A i \in DOMAIN writer : writer[i].version = "v20.0.0"


-----------------------------------------------------------------------------
\* Properties of two instances on the one GC hook (TwoSpec).

\* How often the handler of an instance ran for collection g: the closures the
\* second instance registered are its own, the others the first instance's.
DeliveredTo(g, instance) ==
    Len(SelectSeq(handlerRuns[g].to,
                  LAMBDA c : (c \in other.closures) <=> (instance = "other")))

\* C29: a collection that happens while both instances are started is
\* delivered at most once to the handler of each, and exactly once to each
\* when its notifications have all been processed.
C29_EachInstanceOnce ==
    \A g \in DOMAIN handlerRuns :
        handlerRuns[g].listening = {"first", "other"}
          => \A instance \in {"first", "other"} :
                 /\ DeliveredTo(g, instance) <= 1
                 /\ (\A i \in DOMAIN asyncQueue : asyncQueue[i].gc # g)
                       => DeliveredTo(g, instance) = 1


-----------------------------------------------------------------------------
\* Properties of the order of the handler's runs (QueueSpec).

\* C30: a run of the handler begins only when no other run is under way and no
\* notification of an earlier collection is still queued, and a run under way
\* ends before anything else of the handler happens: the runs are in the order
\* of the collections and do not overlap, whenever the collections happen.
C30_FifoNonOverlapping ==
    [][/\ (running' # None /\ running' # running)
            => /\ running = None
               /\ \A i \in DOMAIN asyncQueue' : asyncQueue'[i].gc >= Get(running').gc
               /\ \A g \in DOMAIN handlerRuns :
                      g > Get(running').gc => handlerRuns[g].runs = 0
       /\ (running # None /\ running' # running)
            => /\ running' = None
               /\ handlerRuns'[Get(running).gc].runs = handlerRuns[Get(running).gc].runs + 1
       /\ \A g \in DOMAIN handlerRuns :
              handlerRuns'[g].runs # handlerRuns[g].runs
                => running # None /\ Get(running).gc = g]_vars

\* The run for the second collection is under way, the run for the first has
\* ended, and the second collection happened while the first run was going on
\* or before it.
C30_Witness ==
    /\ running # None
    /\ Get(running).gc = 2
    /\ handlerRuns[1].runs >= 1
    /\ lastOp.name = "gcEventBegin"


-----------------------------------------------------------------------------
\* Properties of the handler's run among the other callbacks (AtomSpec).

\* C31: while a run of the GC handler is under way, the only steps are a
\* collection, which queues a notification, and the end of that run: no
\* sampler, start() or stop() runs, no other run of the handler begins, and
\* liveDataSizeCache, prevMapSize, prevLargeSize and the lines change only at
\* the end of the run.
C31_HandlerIsAtomic ==
    [][running # None
         => \/ /\ lastOp'.name = "gc"
               /\ running' = running
               /\ UNCHANGED <<samplerVars, gcVars, started, timers>>
            \/ /\ lastOp'.name = "gcEvent"
               /\ running' = None
               /\ handlerRuns'[Get(running).gc].runs = handlerRuns[Get(running).gc].runs + 1
               /\ UNCHANGED <<lastNanos, lastCpuUsage, lastCpuUsageTime, lastEventLoop,
                              lastEventLoopTime, started, timers>>]_vars

\* A collection happened while the handler was running on a started instance
\* whose samplers had fired: its notification waits in the queue.
C31_Witness ==
    /\ running # None
    /\ lastOp.name = "gc"
    /\ started
    /\ lastCpuUsage # None
    /\ asyncQueue # <<>>


-----------------------------------------------------------------------------
\* Properties of the lines an idle process writes after start() (LiveSpec).

\* start() has just taken the instance from stopped to running.
JustStarted == lastOp.name = "start" /\ ~lastOp.wasStarted

-----------------------------------------------------------------------------
\* Properties of a restarted instance (RestartSpec).

\* C33: a CPU percentage is computed against a sample taken since the latest
\* start() that found the instance stopped: when a firing of the CPU/heap task
\* writes nodejs.cpuUsage lines, the previous sample is not older than that
\* start().
C33_NoDeltaAcrossStart ==
    [][(lastOp'.name = "measureCpuHeap" /\ LinesOf(writer', "nodejs.cpuUsage") # <<>>)
         => Nanos(Get(lastCpuUsageTime)) >= lastNanos]_vars


-----------------------------------------------------------------------------
\* Properties of liveDataSizeCache among the callbacks (CacheSpec).

\* The event shrank old_space or is a markSweepCompact with an old_space entry.
SetsLiveData(e) ==
    /\ HasOld(e)
    /\ \/ OldAfter(e)[1].spaceUsedSize < OldBefore(e)[1].spaceUsedSize
       \/ e.type = "markSweepCompact"

\* C34: liveDataSizeCache changes only in a run of the handler on an event that
\* shrank old_space or is a markSweepCompact; such a run leaves it at the
\* event's old_space after-used size, and every other event, every firing of a
\* sampler, start() and stop() leave it as it was.
C34_CacheFrame ==
    [][/\ liveDataSizeCache' # liveDataSizeCache
          => lastOp'.name = "gcEvent" /\ SetsLiveData(Get(lastEvent'))
       /\ (lastOp'.name = "gcEvent" /\ SetsLiveData(Get(lastEvent')))
          => liveDataSizeCache' = Some(OldAfter(Get(lastEvent'))[1].spaceUsedSize)]_vars

\* A scavenge that grew old_space has left a cached value other than its own
\* after-used size in place, on an instance that was stopped and started again
\* since the value was cached.
C34_Witness ==
    /\ lastOp.name = "gcEvent"
    /\ Get(lastEvent).type = "scavenge"
    /\ OldGrowth(Get(lastEvent)) > 0
    /\ IsSome(liveDataSizeCache)
    /\ liveDataSizeCache # Some(OldAfter(Get(lastEvent))[1].spaceUsedSize)
    /\ epilogueCallbacks = 2
    /\ lastCpuUsage # None


-----------------------------------------------------------------------------
\* Properties of the previous-state records among the callbacks (RunSpec).

\* C35: every previous-state record is written by its own sampler alone (and
\* by start(), which seeds lastNanos and the utilization baseline and registers
\* a handler with its own prevMapSize and prevLargeSize), and what a sampler
\* writes and leaves is computed from the clock, the runtime's reading and its
\* own record.
C35_RecordsArePrivate ==
    [][/\ lastNanos' # lastNanos => lastOp'.name \in {"measureEventLoopLag", "start"}
       /\ <<lastCpuUsage, lastCpuUsageTime>>' # <<lastCpuUsage, lastCpuUsageTime>>
            => lastOp'.name = "measureCpuHeap"
       /\ <<lastEventLoop, lastEventLoopTime>>' # <<lastEventLoop, lastEventLoopTime>>
            => lastOp'.name \in {"measureEventLoopUtilization", "start"}
       /\ liveDataSizeCache' # liveDataSizeCache => lastOp'.name = "gcEvent"
       /\ <<prevMapSize, prevLargeSize>>' # <<prevMapSize, prevLargeSize>>
            => lastOp'.name \in {"gcEvent", "start"}
       /\ lastOp'.name = "measureEventLoopLag"
            => /\ writer' = measureEventLoopLag(clock, lastNanos)
               /\ lastNanos' = Nanos(HrTime(clock))
       /\ lastOp'.name = "measureCpuHeap"
            => /\ writer' = measureCpuHeap(clock, Get(lastCpuUsage'), lastCpuUsage,
                                           lastCpuUsageTime)
               /\ lastCpuUsageTime' = Some(HrTime(clock))
       /\ lastOp'.name = "measureEventLoopUtilization"
            => /\ writer' = measureEventLoopUtilization(clock, Get(lastEventLoop'),
                                                        lastEventLoopTime, lastEventLoop)
               /\ lastEventLoopTime' = Some(HrTime(clock))
       /\ lastOp'.name = "gcEvent"
            => \E r \in {GcHandler(Get(lastEvent'), liveDataSizeCache, prevMapSize,
                                   prevLargeSize)} :
                   /\ writer' = r.lines
                   /\ <<liveDataSizeCache, prevMapSize, prevLargeSize>>'
                        = <<r.liveDataSizeCache, r.prevMapSize, r.prevLargeSize>>]_vars

\* The lag task has fired, after the clock moved, on an instance whose other
\* records are all set: the CPU sample, the utilization snapshot and the
\* handler's caches stay as they were.
C35_Witness ==
    /\ lastOp.name = "measureEventLoopLag"
    /\ lastNanos = NanosPerMicro
    /\ lastCpuUsageTime = Some(HrTime(0))
    /\ IsSome(lastEventLoop)
    /\ IsSome(liveDataSizeCache)
    /\ IsSome(prevMapSize)


-----------------------------------------------------------------------------
\* Properties of a stopped instance under GC events (HookSpec).

\* C36: while the instance is stopped, no step writes a line to the registry.
C36_SilentWhenStopped == ~started => writer = <<>>


-----------------------------------------------------------------------------
\* Properties of the CPU percentages at close samples (CpuSpec).

\* C37: every nodejs.cpuUsage value written by measureCpuHeap is a quotient by
\* a positive number of elapsed microseconds: none has the denominator 0.
C37_NoDivisionByZero ==
    lastOp.name = "measureCpuHeap" =>
        \A i \in DOMAIN writer :
            writer[i].name = "nodejs.cpuUsage" => writer[i].value[2] > 0


-----------------------------------------------------------------------------
\* Properties of the addon at and after process exit (NativeSpec).

\* C38: once cleanup has run, before_stats and gcResource are null, no step
\* calls the JavaScript callback, and no function of the addon has used
\* before_stats or gcResource while it was null or freed.
C38_ShutdownSafety ==
    /\ native.faults \cap {"before_stats", "gcResource"} = {}
    /\ native.isolate_shutting_down
         => /\ ~native.before_stats
            /\ gcResource = 0
            /\ lastOp.name # "gcEvent"

\* After cleanup, with afterGC still on V8's list, a collection has happened
\* and a notification sent before cleanup has been dropped by async_callback.
C38_Witness ==
    /\ native.isolate_shutting_down
    /\ epilogueCallbacks > 0
    /\ gcCount = 2
    /\ lastOp.name = "gcDropped"
    /\ native.allocs # <<>>

\* The allocations whose handle is sent and has not been run.
Pending == {asyncQueue[i].id : i \in DOMAIN asyncQueue}

\* C39: the GCInfo and the handle of a notification are untouched while the
\* handle waits; once async_callback has run for it, on either path, the
\* GCInfo has been deleted once and the handle closed once, the handle is
\* deleted at most once and only after its uv_close, and neither was used
\* after its release.
C39_ReleasedOnce ==
    /\ native.faults \cap {"info", "handle"} = {}
    /\ \A id \in DOMAIN native.allocs :
           LET a == native.allocs[id]
           IN  /\ a.handle <= a.closed
               /\ IF id \in Pending
                  THEN a.info = 0 /\ a.closed = 0
                  ELSE a.info = 1 /\ a.closed = 1

\* Two notifications of one collection have been released, one handed to the
\* callback and one dropped after cleanup, and close_callback has deleted both
\* handles.
C39_Witness ==
    /\ Len(native.allocs) >= 2
    /\ \A id \in DOMAIN native.allocs :
           native.allocs[id] = [info |-> 1, closed |-> 1, handle |-> 1]
    /\ native.isolate_shutting_down
    /\ IsSome(lastEvent)
    /\ handlerRuns = <<>>

====
